---- MODULE Spec2Model ----
(***************************************************************************)
(* Verification model of the Atlas paper-trading backend: the autonomous   *)
(* pilot loop (app/agents/autonomous_pilot.py) and the multi-agent         *)
(* coordinator pipeline (app/agents/coordinator.py) with its agents and    *)
(* communication hub, the ways a pilot run is started (scheduler and       *)
(* manual trigger), the text parsers and the streaming orchestrator.       *)
(*                                                                         *)
(* Conventions                                                             *)
(*  - A Python value that may be None (or a missing dict key) is a         *)
(*    sequence of length 0 or 1: None is <<>>, a value v is <<v>>.         *)
(*  - Confidence values are integers in hundredths (0.5 is 50).            *)
(*  - A model text is the record of the features the parsers read from it. *)
(***************************************************************************)
EXTENDS Integers, Sequences, FiniteSets, TLC

VARIABLES
    entry,          \* which entry point this behaviour exercises
    \* ---- run_autonomous_pilot ----
    pc,             \* position in run_autonomous_pilot
    trace,          \* the run's trace dict
    portfolio,      \* the PERCEIVE snapshot (local variable portfolio)
    idx,            \* loop index of the PLAN and ACT loops (1-based)
    exc,            \* the exception in flight at the finally block
    outcome,        \* how the call ended: "running", "returned", "raised"
    account,        \* the pilot account's positions in the relational store
    events,         \* log of the calls the run made to its collaborators
    savedTrace,     \* the trace as it was handed to save_agent_run
    agent_runs,     \* the agent_runs collection (documents inserted)
    \* ---- MultiAgentCoordinator.run_trading_cycle ----
    cpc,            \* position in run_trading_cycle
    ci,             \* index of the watchlist symbol being processed
    agents,         \* hub.agents: the registered agent names
    message_history,\* hub.message_history
    shared_context, \* hub.shared_context: agent name -> content or None
    current_state,  \* portfolio_manager.current_state
    portfolio_state,\* local: the state load_portfolio_state returned
    market_analysis,\* local of the symbol being processed
    existing_position,
    potential_action,
    risk_evaluation,
    portfolio_constraints,
    decisions,      \* local: the list the cycle returns
    tools_called,   \* trace["tools_called"] of the trace passed to the cycle
    calls,          \* log of the agent steps and model calls made
    cexc,           \* the exception that ended the cycle, or None
    \* ---- scheduler and POST /jobs/run-pilot ----
    job_instances,  \* running instances of the scheduler job "autonomous_pilot"
    manual_runs,    \* trigger_pilot_run requests awaiting run_autonomous_pilot
    \* ---- calls on the hub and on the pure functions ----
    hub_last,       \* the last hub operation called and what it returned
    probe,          \* a call of a parser or checker: its inputs and result
    \* ---- run_orchestrator_streaming ----
    opc,            \* position in run_orchestrator_streaming
    emitted,        \* the events yielded so far
    ochunks,        \* chunks of model output consumed so far
    tool_calls_made,\* the first get_market_data result without error, or None
    accumulated_text,\* the text parsed for a proposal, once it was parsed
    proposal,       \* the parsed proposal, or None
    \* ---- the paper account in the relational store ----
    cash_balance,   \* accounts.cash_balance
    position_quantity, \* positions.quantity of the symbol, 0 for no row
    orders,         \* the rows of the orders table, in order of creation
    tasks,          \* the calls in progress: position and locals of each
    ncalls          \* the calls begun so far

pilotVars == <<pc, trace, portfolio, idx, exc, outcome, account, events,
               savedTrace, agent_runs>>

hubVars == <<agents, message_history, shared_context>>

cycleLocals == <<cpc, ci, current_state, portfolio_state, market_analysis,
                 existing_position, potential_action, risk_evaluation,
                 portfolio_constraints, decisions, tools_called, calls, cexc>>

cycleVars == <<cpc, ci, hubVars, current_state, portfolio_state,
               market_analysis, existing_position, potential_action,
               risk_evaluation, portfolio_constraints, decisions,
               tools_called, calls, cexc>>

jobVars == <<job_instances, manual_runs>>

orchVars == <<opc, emitted, ochunks, tool_calls_made, accumulated_text, proposal>>

storeVars == <<cash_balance, position_quantity, orders, tasks, ncalls>>

\* what the pilot run and the trading cycle never touch
auxVars == <<jobVars, hub_last, probe, orchVars, storeVars>>

vars == <<entry, pilotVars, cycleVars, auxVars>>

None == <<>>
Some(x) == <<x>>

\* ------------------------------------------------------------------ bounds
\* Number of symbols of the hard-coded watchlist that a run goes through.
WatchlistLen == 2
\* Quantity of a symbol the account can hold when a run starts (0: no position).
HeldQuantities == {0, 15}

\* ------------------------------------------------------------- constants
FullWatchlist == <<"NVDA", "TSLA", "AAPL", "MSFT", "GOOGL">>
watchlist == SubSeq(FullWatchlist, 1, WatchlistLen)
Symbols == {watchlist[i] : i \in 1..Len(watchlist)}

\* quantity of a BUY whose text names no quantity
DefaultQuantity == 10
\* confidence when the text names none (0.5)
DefaultConfidence == 50

\* ------------------------------------------------------------ model texts
\* The numerals a text can carry after "quantity".
TextQuantities == {None, Some(0), Some(3)}
\* The numeral after "confidence": none, or <<parses, hundredths>>.
TextConfidences == {None, <<TRUE, 80>>, <<TRUE, 8000>>, <<FALSE, 0>>}

\* What the pilot's parser reads from a model text.
PilotTexts ==
    [hold : BOOLEAN,      \* "HOLD" or "WAIT" occurs
     sell : BOOLEAN,      \* "SELL" or "EXIT" occurs
     buy  : BOOLEAN,      \* "BUY" occurs
     qty  : TextQuantities,
     conf : TextConfidences]

\* ------------------------------------------------- parse_autonomous_decision
ParseConfidencePilot(text) ==
    IF text.conf = None THEN DefaultConfidence
    ELSE IF ~text.conf[1] THEN DefaultConfidence
    ELSE IF text.conf[2] > 100 THEN text.conf[2] \div 100
    ELSE text.conf[2]

PilotAction(text, pos) ==
    IF text.hold THEN "HOLD"
    ELSE IF pos # None /\ text.sell THEN "SELL"
    ELSE IF pos = None /\ text.buy THEN "BUY"
    ELSE "HOLD"

PilotQuantity(action, text, pos) ==
    IF action = "BUY"
    THEN IF text.qty # None THEN text.qty ELSE Some(DefaultQuantity)
    ELSE IF action = "SELL" /\ pos # None
    THEN Some(pos[1].quantity)
    ELSE None

parse_autonomous_decision(symbol, text, pos) ==
    LET action == PilotAction(text, pos) IN
    [symbol       |-> symbol,
     action       |-> action,
     quantity     |-> PilotQuantity(action, text, pos),
     reasoning    |-> "text",
     confidence   |-> ParseConfidencePilot(text),
     trade_result |-> None,
     trade_error  |-> None]

\* The HOLD decision analyze_symbol_for_autonomous returns when anything in
\* the analysis raises.
AnalysisErrorDecision(symbol) ==
    [symbol       |-> symbol,
     action       |-> "HOLD",
     quantity     |-> None,
     reasoning    |-> "Analysis error",
     confidence   |-> 0,
     trade_result |-> None,
     trade_error  |-> None]

\* portfolio["positions"] entry of a symbol, or None
ExistingPosition(pf, symbol) ==
    IF pf[symbol] > 0 THEN Some([symbol |-> symbol, quantity |-> pf[symbol]])
    ELSE None

\* ------------------------------------------------------ run_autonomous_pilot
\* Largest number of tool calls the model asks for while analysing one symbol
\* (an analysis makes none or this many).
MaxToolCalls == 1

InitialTrace ==
    [status       |-> "RUNNING",
     error        |-> None,
     tools_called |-> 0,
     decisions    |-> <<>>,
     reflection   |-> None,
     ended        |-> FALSE]

\* str(e) of the exception a phase raises
ErrMsg(at) == at \o " failed"

\* except Exception as e: status = ERROR, error = str(e), raise
ExceptHandler(tr, at) == [tr EXCEPT !.status = "ERROR", !.error = Some(ErrMsg(at))]

\* An awaited call of phase `at` raises an Exception: the except block runs
\* and control reaches the finally block with the exception in flight.
Fails(at) ==
    /\ trace' = ExceptHandler(trace, at)
    /\ exc' = Some([type |-> "Exception", at |-> at])
    /\ pc' = "finally"

\* The run is cancelled while awaiting in phase `at`: asyncio.CancelledError
\* derives from BaseException, so `except Exception` does not catch it and
\* control reaches the finally block with the trace as it was.
Cancelled(at) ==
    /\ trace' = trace
    /\ exc' = Some([type |-> "CancelledError", at |-> at])
    /\ pc' = "finally"

\* One entry of the log of the calls the run made to its collaborators.
Event(call, arg, result) == [call |-> call, arg |-> arg, result |-> result]

\* Lines 36-51: the trace is created.
StartRun ==
    /\ entry = "pilot" /\ pc = "idle"
    /\ trace' = InitialTrace
    /\ pc' = "perceive"
    /\ outcome' = "running"
    /\ UNCHANGED <<entry, auxVars, cycleVars, portfolio, idx, exc, account, events,
                   savedTrace, agent_runs>>

\* Mutant of Perceive: a failed load is recovered locally, the run going on
\* with an empty portfolio.
PerceiveRecoversLocally ==
    /\ entry = "pilot" /\ pc = "perceive"
    /\ \/ /\ events' = Append(events, Event("get_portfolio_state", 0, "ok"))
          /\ portfolio' = account
       \/ /\ events' = Append(events, Event("get_portfolio_state", 0, "raise"))
          /\ portfolio' = [s \in Symbols |-> 0]
    /\ pc' = "plan"
    /\ idx' = 1
    /\ UNCHANGED <<entry, auxVars, cycleVars, trace, exc, outcome, account, savedTrace,
                   agent_runs>>

\* 1. PERCEIVE: portfolio = await get_portfolio_state("pilot")
Perceive ==
    /\ entry = "pilot" /\ pc = "perceive"
    /\ \/ /\ events' = Append(events, Event("get_portfolio_state", 0, "ok"))
          /\ portfolio' = account
          /\ pc' = "plan"
          /\ idx' = 1
          /\ UNCHANGED <<trace, exc>>
       \/ /\ events' = Append(events, Event("get_portfolio_state", 0, "raise"))
          /\ Fails("PERCEIVE")
          /\ UNCHANGED <<portfolio, idx>>
       \/ /\ events' = Append(events, Event("get_portfolio_state", 0, "cancel"))
          /\ Cancelled("PERCEIVE")
          /\ UNCHANGED <<portfolio, idx>>
    /\ UNCHANGED <<entry, auxVars, cycleVars, outcome, account, savedTrace, agent_runs>>

\* analyze_symbol_for_autonomous when the model answers `text`
AnalyzeOk(symbol, pf, text) ==
    parse_autonomous_decision(symbol, text, ExistingPosition(pf, symbol))

\* Lines 74-75, and the tool calls the analysis appended to the trace.
PlanAppend(tr, decision, ntools) ==
    [tr EXCEPT !.decisions = Append(@, decision),
               !.tools_called = @ + ntools]

PlanAdvance ==
    /\ idx' = IF idx = Len(watchlist) THEN 1 ELSE idx + 1
    /\ pc' = IF idx = Len(watchlist) THEN "act" ELSE "plan"

\* One iteration of the PLAN loop (lines 67-75).
Plan ==
    /\ entry = "pilot" /\ pc = "plan"
    /\ LET symbol == watchlist[idx] IN
       \/ \E text \in PilotTexts, ntools \in {0, MaxToolCalls} :
            /\ events' = Append(events,
                            Event("analyze_symbol_for_autonomous", idx, "ok"))
            /\ trace' = PlanAppend(trace, AnalyzeOk(symbol, portfolio, text), ntools)
            /\ PlanAdvance
            /\ exc' = exc
       \* the model call raises inside the analysis: caught there (line 255)
       \/ \E ntools \in {0, MaxToolCalls} :
            /\ events' = Append(events,
                            Event("analyze_symbol_for_autonomous", idx, "ok"))
            /\ trace' = PlanAppend(trace, AnalysisErrorDecision(symbol), ntools)
            /\ PlanAdvance
            /\ exc' = exc
       \* cancelled while awaiting execute_tool
       \/ /\ events' = Append(events,
                            Event("analyze_symbol_for_autonomous", idx, "cancel"))
          /\ Cancelled("PLAN")
          /\ idx' = idx
    /\ UNCHANGED <<entry, auxVars, cycleVars, portfolio, outcome, account, savedTrace,
                   agent_runs>>

\* Mutant of Submits: the quantity is tested for None, not for truth.
SubmitsNonNull(d) ==
    /\ d.action \in {"BUY", "SELL"}
    /\ d.quantity # None

\* Line 81: decision["action"] in ["BUY", "SELL"] and decision.get("quantity")
Submits(d) ==
    /\ d.action \in {"BUY", "SELL"}
    /\ d.quantity # None
    /\ d.quantity[1] # 0

\* validate_trade as far as it depends on the positions (cash is not
\* modelled: a BUY may pass or fail it)
PositionsAllow(acct, d) ==
    d.action = "SELL" => acct[d.symbol] >= d.quantity[1]

\* update_position_after_trade
PositionsAfter(acct, d) ==
    [acct EXCEPT ![d.symbol] =
        IF d.action = "BUY" THEN @ + d.quantity[1] ELSE @ - d.quantity[1]]

TradeResult(d) ==
    [symbol |-> d.symbol, side |-> d.action, quantity |-> d.quantity[1],
     status |-> "FILLED"]

ActAdvance ==
    /\ idx' = IF idx = Len(trace.decisions) THEN 1 ELSE idx + 1
    /\ pc' = IF idx = Len(trace.decisions) THEN "reflect" ELSE "act"

\* Mutant of Act: no try/except around execute_paper_trade, so a failed trade
\* reaches the outer except block.
ActNoCatch ==
    /\ entry = "pilot" /\ pc = "act"
    /\ LET d == trace.decisions[idx] IN
       IF d.action \in {"BUY", "SELL"} /\ d.quantity # None /\ d.quantity[1] # 0
       THEN \/ /\ PositionsAllow(account, d)
               /\ events' = Append(events, Event("execute_paper_trade", idx, "ok"))
               /\ trace' = [trace EXCEPT !.decisions[idx].trade_result =
                                             Some(TradeResult(d))]
               /\ account' = PositionsAfter(account, d)
               /\ ActAdvance
               /\ exc' = exc
            \/ /\ events' = Append(events, Event("execute_paper_trade", idx, "raise"))
               /\ Fails("ACT")
               /\ idx' = idx
               /\ account' = account
       ELSE /\ ActAdvance
            /\ UNCHANGED <<trace, exc, account, events>>
    /\ UNCHANGED <<entry, auxVars, cycleVars, portfolio, outcome, savedTrace, agent_runs>>

\* One iteration of the ACT loop (lines 80-98).
Act ==
    /\ entry = "pilot" /\ pc = "act"
    /\ LET d == trace.decisions[idx] IN
       IF Submits(d)
       THEN \/ /\ PositionsAllow(account, d)
               /\ events' = Append(events, Event("execute_paper_trade", idx, "ok"))
               /\ trace' = [trace EXCEPT !.decisions[idx].trade_result =
                                             Some(TradeResult(d))]
               /\ account' = PositionsAfter(account, d)
               /\ ActAdvance
               /\ exc' = exc
            \* execute_paper_trade raises: caught at line 96
            \/ /\ events' = Append(events, Event("execute_paper_trade", idx, "raise"))
               /\ trace' = [trace EXCEPT !.decisions[idx].trade_error =
                                             Some("trade failed")]
               /\ account' = account
               /\ ActAdvance
               /\ exc' = exc
            \/ /\ events' = Append(events, Event("execute_paper_trade", idx, "cancel"))
               /\ Cancelled("ACT")
               /\ idx' = idx
               /\ account' = account
       ELSE /\ ActAdvance
            /\ UNCHANGED <<trace, exc, account, events>>
    /\ UNCHANGED <<entry, auxVars, cycleVars, portfolio, outcome, savedTrace, agent_runs>>

\* generate_reflection
Reflection(old_portfolio, new_portfolio, ds) ==
    [trades_executed |->
        Cardinality({i \in 1..Len(ds) :
                        /\ ds[i].action \in {"BUY", "SELL"}
                        /\ ds[i].trade_result # None}),
     entered |-> {s \in Symbols : new_portfolio[s] > 0 /\ old_portfolio[s] = 0},
     exited  |-> {s \in Symbols : old_portfolio[s] > 0 /\ new_portfolio[s] = 0}]

\* 4. REFLECT (lines 103-111)
Reflect ==
    /\ entry = "pilot" /\ pc = "reflect"
    /\ \/ /\ events' = Append(events, Event("get_portfolio_state", 1, "ok"))
          /\ trace' = [trace EXCEPT !.reflection =
                          Some(Reflection(portfolio, account, trace.decisions))]
          /\ pc' = "snapshot"
          /\ exc' = exc
       \/ /\ events' = Append(events, Event("get_portfolio_state", 1, "raise"))
          /\ Fails("REFLECT")
       \/ /\ events' = Append(events, Event("get_portfolio_state", 1, "cancel"))
          /\ Cancelled("REFLECT")
    /\ UNCHANGED <<entry, auxVars, cycleVars, portfolio, idx, outcome, account,
                   savedTrace, agent_runs>>

\* Lines 114-134: save_equity_snapshot, then the trace is marked COMPLETE.
SaveSnapshot ==
    /\ entry = "pilot" /\ pc = "snapshot"
    /\ \/ /\ events' = Append(events, Event("save_equity_snapshot", 0, "ok"))
          /\ trace' = [trace EXCEPT !.status = "COMPLETE", !.ended = TRUE]
          /\ pc' = "finally"
          /\ exc' = None
       \/ /\ events' = Append(events, Event("save_equity_snapshot", 0, "raise"))
          /\ Fails("SNAPSHOT")
       \/ /\ events' = Append(events, Event("save_equity_snapshot", 0, "cancel"))
          /\ Cancelled("SNAPSHOT")
    /\ UNCHANGED <<entry, auxVars, cycleVars, portfolio, idx, outcome, account,
                   savedTrace, agent_runs>>

\* Mutant of Finally: the save is the last statement of the try body, not a
\* finally block, so a run that raised leaves without saving.
FinallySavesOnSuccessOnly ==
    /\ entry = "pilot" /\ pc = "finally"
    /\ IF exc = None
       THEN /\ savedTrace' = Some(trace)
            /\ events' = Append(events, Event("save_agent_run", 0, "ok"))
            /\ agent_runs' = Append(agent_runs, trace)
            /\ outcome' = "returned"
       ELSE /\ outcome' = "raised"
            /\ UNCHANGED <<savedTrace, events, agent_runs>>
    /\ pc' = "done"
    /\ UNCHANGED <<entry, auxVars, cycleVars, trace, portfolio, idx, exc, account>>

\* finally: await save_agent_run(trace); then return trace, or the exception
\* in flight goes on to the caller. save_agent_run may itself raise.
Finally ==
    /\ entry = "pilot" /\ pc = "finally"
    /\ savedTrace' = Some(trace)
    /\ \/ /\ events' = Append(events, Event("save_agent_run", 0, "ok"))
          /\ agent_runs' = Append(agent_runs, trace)
          /\ outcome' = IF exc = None THEN "returned" ELSE "raised"
       \/ /\ events' = Append(events, Event("save_agent_run", 0, "raise"))
          /\ agent_runs' = agent_runs
          /\ outcome' = "raised"
    /\ pc' = "done"
    /\ UNCHANGED <<entry, auxVars, cycleVars, trace, portfolio, idx, exc, account>>

PilotNext ==
    \/ StartRun
    \/ Perceive
    \/ Plan
    \/ Act
    \/ Reflect
    \/ SaveSnapshot
    \/ Finally

\* --------------------------------------------------- AgentCommunicationHub
AgentNames == {"PortfolioManager", "MarketAnalyst", "RiskManager", "ExecutionAgent"}

BroadcastMessage(from_agent, content) ==
    [from_agent   |-> from_agent,
     to_agent     |-> None,
     message_type |-> "broadcast",
     content      |-> content]

\* Mutant of broadcast: the shared context keeps the sender's first content
\* (setdefault in place of assignment).
broadcastKeepsFirst(hist, ctx, from_agent, content) ==
    <<Append(hist, BroadcastMessage(from_agent, content)),
      [ctx EXCEPT ![from_agent] = IF @ = None THEN Some(content) ELSE @]>>

\* Mutant of broadcast: the message is put at the head of the history.
broadcastPrepends(hist, ctx, from_agent, content) ==
    << <<BroadcastMessage(from_agent, content)>> \o hist,
       [ctx EXCEPT ![from_agent] = Some(content)] >>

\* hub.broadcast: the message is appended and the sender's shared context
\* is overwritten. Gives the hub's <<message_history, shared_context>>.
broadcast(hist, ctx, from_agent, content) ==
    <<Append(hist, BroadcastMessage(from_agent, content)),
      [ctx EXCEPT ![from_agent] = Some(content)]>>

\* The names under which the shared context can hold an entry: the agents'
\* names and the empty name.
ContextKeys == AgentNames \cup {""}

\* shared_context with no entry (None: the key is absent)
EmptyContext == [a \in ContextKeys |-> None]

\* ------------------------------------------------------ PortfolioManagerAgent
PAPER_MAX_POSITIONS == 10
PAPER_MAX_POSITION_SIZE == 10000
\* the placeholder unit price of check_trade_constraints
PlaceholderPrice == 100
\* quote of every symbol (dollars)
QuotePrice == 100

\* What the relational store can return for the account besides the
\* positions in watchlist symbols: its cash, and how many positions it holds
\* in other symbols.
CashLevels == {0, 100000}
OtherPositionCounts == {0}

\* get_portfolio_state: positions has one entry per symbol held
PortfolioState(acct, cash, others) ==
    [positions       |-> acct,
     other_positions |-> others,
     cash            |-> cash,
     total_equity    |-> cash
        + QuotePrice * (LET Sum[S \in SUBSET Symbols] ==
                              IF S = {} THEN 0
                              ELSE LET x == CHOOSE y \in S : TRUE
                                   IN acct[x] + Sum[S \ {x}]
                        IN Sum[Symbols])]

PositionCount(ps) ==
    Cardinality({s \in Symbols : ps.positions[s] > 0}) + ps.other_positions

\* get_position_info: the position entry of the loaded state, which has no
\* "exists" key, or the default {symbol, quantity: 0, exists: False}
get_position_info(ps, symbol) ==
    IF ps.positions[symbol] > 0
    THEN [symbol |-> symbol, quantity |-> ps.positions[symbol], exists |-> None]
    ELSE [symbol |-> symbol, quantity |-> 0, exists |-> Some(FALSE)]

\* existing_position.get("exists", False)
GetExists(pos) == IF pos.exists = None THEN FALSE ELSE pos.exists[1]

\* Mutant of check_trade_constraints: the cash estimate is reported as a
\* violation but does not count against `allowed`.
check_trade_constraintsCashIsWarning(ps, symbol, action, quantity) ==
    LET held == ps.positions[symbol] > 0
        violations ==
            IF action = "BUY"
            THEN (IF held THEN {"Already have position"} ELSE {})
                 \cup (IF PositionCount(ps) >= PAPER_MAX_POSITIONS
                       THEN {"Maximum positions reached"} ELSE {})
                 \cup (IF ps.cash < quantity * PlaceholderPrice
                       THEN {"Insufficient cash"} ELSE {})
            ELSE IF action = "SELL"
            THEN IF ~held THEN {"No existing position"}
                 ELSE IF ps.positions[symbol] < quantity
                 THEN {"Insufficient shares to sell"} ELSE {}
            ELSE {}
    IN [allowed           |-> violations \ {"Insufficient cash"} = {},
        violations        |-> violations,
        current_positions |-> PositionCount(ps),
        cash_available    |-> ps.cash]

check_trade_constraints(ps, symbol, action, quantity) ==
    LET held == ps.positions[symbol] > 0
        violations ==
            IF action = "BUY"
            THEN (IF held THEN {"Already have position"} ELSE {})
                 \cup (IF PositionCount(ps) >= PAPER_MAX_POSITIONS
                       THEN {"Maximum positions reached"} ELSE {})
                 \cup (IF ps.cash < quantity * PlaceholderPrice
                       THEN {"Insufficient cash"} ELSE {})
            ELSE IF action = "SELL"
            THEN IF ~held THEN {"No existing position"}
                 ELSE IF ps.positions[symbol] < quantity
                 THEN {"Insufficient shares to sell"} ELSE {}
            ELSE {}
    IN [allowed           |-> violations = {},
        violations        |-> violations,
        current_positions |-> PositionCount(ps),
        cash_available    |-> ps.cash]

\* --------------------------------------------------------- MarketAnalystAgent
\* The numeral after "confidence" in the analyst's and the execution agent's
\* texts.
AgentConfidences == {<<TRUE, 80>>}
AnalystTexts == [conf : AgentConfidences]

Min(a, b) == IF a < b THEN a ELSE b
Max(a, b) == IF a > b THEN a ELSE b

_extract_confidence(text) ==
    IF text.conf = None THEN DefaultConfidence
    ELSE IF ~text.conf[1] THEN DefaultConfidence
    ELSE LET c == IF text.conf[2] > 100 THEN text.conf[2] \div 100
                  ELSE text.conf[2]
         IN Max(0, Min(100, c))

\* the dict analyze_symbol returns when get_market_data gave an error
AnalysisError(symbol) ==
    [symbol |-> symbol, status |-> "error", error |-> "market data error"]

AnalysisResult(symbol, tech_ok, sent_ok, text) ==
    [symbol               |-> symbol,
     current_price        |-> QuotePrice,
     technicals_error     |-> ~tech_ok,
     sentiment_error      |-> ~sent_ok,
     confidence           |-> _extract_confidence(text)]

\* Mutant of HasErrorKey: the cycle looks for a key analyze_symbol never sets.
HasErrorKeyWrongKey(ma) == "failed" \in DOMAIN ma

\* "error" in market_analysis
HasErrorKey(ma) == "error" \in DOMAIN ma

ToolRecord(tool, symbol, ok) ==
    [agent |-> "MarketAnalyst", tool |-> tool, symbol |-> symbol, error |-> ~ok]

\* ----------------------------------------------------------- RiskManagerAgent
\* A numeral a pattern matched: None, or <<parses, value>>.
RiskTexts ==
    [approved : BOOLEAN,        \* "APPROVED" occurs
     rejected : {FALSE},        \* "REJECTED" occurs
     high     : {FALSE},        \* "HIGH" occurs
     low      : {FALSE},        \* "LOW" occurs
     position : {<<TRUE, 2000>>},
     stop     : {None, <<FALSE, 0>>},
     take     : {None}]

\* float() of a matched numeral raises ValueError
ParseEvaluationRaises(text) ==
    \/ text.position # None /\ ~text.position[1]
    \/ text.stop # None /\ ~text.stop[1]
    \/ text.take # None /\ ~text.take[1]

_parse_evaluation(text, current_price, ps) ==
    LET position_size ==
            IF text.position # None THEN text.position[2]
            ELSE Min((ps.total_equity * 5) \div 100, PAPER_MAX_POSITION_SIZE)
        stop_loss ==
            IF text.stop # None THEN text.stop[2] ELSE (current_price * 95) \div 100
        take_profit ==
            IF text.take # None THEN text.take[2] ELSE (current_price * 110) \div 100
        risk == current_price - stop_loss
        reward == take_profit - current_price
    IN [approval_status       |-> IF text.approved /\ ~text.rejected
                                  THEN "APPROVED" ELSE "REJECTED",
        risk_level            |-> IF text.high THEN "HIGH"
                                  ELSE IF text.low THEN "LOW" ELSE "MEDIUM",
        position_size_dollars |-> position_size,
        recommended_quantity  |-> IF current_price # 0
                                  THEN position_size \div current_price ELSE 0,
        stop_loss             |-> stop_loss,
        take_profit           |-> take_profit,
        risk_reward_ratio     |-> IF risk > 0 THEN reward \div risk ELSE 0]

\* ------------------------------------------------------------- ExecutionAgent
ExecTexts ==
    {t \in [hold    : BOOLEAN,       \* "HOLD" occurs
            sell    : BOOLEAN,       \* "SELL" or "EXIT" occurs
            buy     : BOOLEAN,       \* "BUY" occurs
            dontbuy : BOOLEAN,       \* "DON'T BUY" occurs
            conf    : AgentConfidences] :
        t.dontbuy => t.buy}

_parse_decision(text, re, pos) ==
    LET action ==
            IF text.hold THEN "HOLD"
            ELSE IF GetExists(pos)
            THEN IF text.sell THEN "SELL" ELSE "HOLD"
            ELSE IF text.buy /\ ~text.dontbuy THEN "BUY" ELSE "HOLD"
    IN [action     |-> action,
        quantity   |-> IF action = "BUY" THEN Some(re.recommended_quantity)
                       ELSE IF action = "SELL" THEN Some(pos.quantity)
                       ELSE None,
        confidence |-> IF text.conf = None THEN DefaultConfidence
                       ELSE IF ~text.conf[1] THEN DefaultConfidence
                       ELSE IF text.conf[2] > 100 THEN text.conf[2] \div 100
                       ELSE text.conf[2],
        reasoning  |-> "text"]

\* ------------------------------------- MultiAgentCoordinator.run_trading_cycle
HoldDecision(symbol, reasoning) ==
    [symbol     |-> symbol,
     action     |-> "HOLD",
     quantity   |-> None,
     confidence |-> 0,
     reasoning  |-> reasoning]

\* the for loop moves on to the next symbol, or the cycle returns; the
\* locals of the iteration are dead
NextSymbol ==
    /\ ci' = IF ci = Len(watchlist) THEN ci ELSE ci + 1
    /\ cpc' = IF ci = Len(watchlist) THEN "returned" ELSE "analyze"
    /\ existing_position' = None
    /\ potential_action' = None
    /\ risk_evaluation' = None
    /\ portfolio_constraints' = None

\* Mutant of ProcessingError: the try block is around the loop, so the
\* first failure ends the cycle with the decisions made so far.
ProcessingErrorEndsLoop(msg) ==
    /\ decisions' = Append(decisions,
                           HoldDecision(watchlist[ci], "Processing error: " \o msg))
    /\ market_analysis' = None
    /\ ci' = ci
    /\ cpc' = "returned"
    /\ existing_position' = None
    /\ potential_action' = None
    /\ risk_evaluation' = None
    /\ portfolio_constraints' = None

\* except Exception as e (lines 153-160)
ProcessingError(msg) ==
    /\ decisions' = Append(decisions,
                           HoldDecision(watchlist[ci], "Processing error: " \o msg))
    /\ market_analysis' = None
    /\ NextSymbol

\* Lines 94-108, given what analyze_symbol returned.
AfterAnalysis(result) ==
    LET symbol == watchlist[ci]
        pos == get_position_info(current_state[1], symbol)
    IN /\ market_analysis' = Some(result)
       /\ IF HasErrorKey(result)
          THEN /\ decisions' = Append(decisions,
                      HoldDecision(symbol, "Analysis error: " \o result.error))
               /\ NextSymbol
          ELSE /\ existing_position' = Some(pos)
               /\ potential_action' = Some(IF GetExists(pos) THEN "SELL" ELSE "BUY")
               /\ cpc' = "risk"
               /\ UNCHANGED <<ci, decisions, risk_evaluation, portfolio_constraints>>

\* Lines 61-69: hub.clear(), decisions = []
StartCycle ==
    /\ entry = "cycle" /\ cpc = "idle"
    /\ message_history' = <<>>
    /\ shared_context' = EmptyContext
    /\ decisions' = <<>>
    /\ cpc' = "load"
    /\ UNCHANGED <<entry, auxVars, pilotVars, ci, agents, current_state, portfolio_state,
                   market_analysis, existing_position, potential_action,
                   risk_evaluation, portfolio_constraints, tools_called, calls,
                   cexc>>

\* Step 1: portfolio_state = await portfolio_manager.load_portfolio_state()
LoadPortfolio ==
    /\ entry = "cycle" /\ cpc = "load"
    /\ \/ \E cash \in CashLevels, others \in OtherPositionCounts :
            LET state == PortfolioState(account, cash, others)
                hub == broadcast(message_history, shared_context,
                                 "PortfolioManager", [portfolio_state |-> state])
            IN /\ calls' = Append(calls, Event("load_portfolio_state", "", "ok"))
               /\ current_state' = Some(state)
               /\ portfolio_state' = Some(state)
               /\ message_history' = hub[1]
               /\ shared_context' = hub[2]
               /\ cpc' = "analyze"
               /\ cexc' = cexc
       \* get_portfolio_state raises: logged and re-raised (lines 64-66)
       \/ /\ calls' = Append(calls, Event("load_portfolio_state", "", "raise"))
          /\ cpc' = "raised"
          /\ cexc' = Some("load_portfolio_state failed")
          /\ UNCHANGED <<current_state, portfolio_state, message_history,
                         shared_context>>
       \/ /\ calls' = Append(calls, Event("load_portfolio_state", "", "cancel"))
          /\ cpc' = "raised"
          /\ cexc' = Some("CancelledError")
          /\ UNCHANGED <<current_state, portfolio_state, message_history,
                         shared_context>>
    /\ UNCHANGED <<entry, auxVars, pilotVars, ci, agents, market_analysis,
                   existing_position, potential_action, risk_evaluation,
                   portfolio_constraints, decisions, tools_called>>

\* Step 2: market_analyst.analyze_symbol, then lines 94-108 of the cycle
Analyze ==
    /\ entry = "cycle" /\ cpc = "analyze"
    /\ LET symbol == watchlist[ci] IN
       \* get_market_data returns an error: analyze_symbol returns at line 89
       \/ /\ tools_called' = Append(tools_called,
                                 ToolRecord("get_market_data", symbol, FALSE))
          /\ calls' = Append(calls, Event("analyze_symbol", symbol, "ok"))
          /\ AfterAnalysis(AnalysisError(symbol))
          /\ UNCHANGED <<message_history, shared_context, cexc>>
       \* the three tools answer; the model answers or raises
       \/ \E tech_ok \in BOOLEAN, sent_ok \in {TRUE} :
            /\ tools_called' = tools_called
                    \o << ToolRecord("get_market_data", symbol, TRUE),
                          ToolRecord("analyze_technicals", symbol, tech_ok),
                          ToolRecord("check_sentiment", symbol, sent_ok) >>
            /\ \/ \E text \in AnalystTexts :
                    LET result == AnalysisResult(symbol, tech_ok, sent_ok, text)
                        hub == broadcast(message_history, shared_context,
                                   "MarketAnalyst",
                                   [symbol |-> symbol, analysis |-> result])
                    IN /\ calls' = calls
                            \o << Event("model:MarketAnalyst", symbol, "ok"),
                                  Event("analyze_symbol", symbol, "ok") >>
                       /\ message_history' = hub[1]
                       /\ shared_context' = hub[2]
                       /\ AfterAnalysis(result)
                       /\ cexc' = cexc
               \/ /\ calls' = calls
                       \o << Event("model:MarketAnalyst", symbol, "raise"),
                             Event("analyze_symbol", symbol, "raise") >>
                  /\ ProcessingError("model call failed")
                  /\ UNCHANGED <<message_history, shared_context, cexc>>
       \* cancelled while awaiting get_market_data
       \/ /\ calls' = Append(calls, Event("analyze_symbol", symbol, "cancel"))
          /\ cpc' = "raised"
          /\ cexc' = Some("CancelledError")
          /\ UNCHANGED <<ci, decisions, market_analysis, existing_position,
                         potential_action, risk_evaluation, portfolio_constraints,
                         message_history, shared_context, tools_called>>
    /\ UNCHANGED <<entry, auxVars, pilotVars, agents, current_state, portfolio_state>>

\* Step 3: risk_manager.evaluate_trade
RiskEvaluate ==
    /\ entry = "cycle" /\ cpc = "risk"
    /\ LET symbol == watchlist[ci] IN
       \/ \E text \in RiskTexts :
            IF ParseEvaluationRaises(text)
            THEN /\ calls' = calls
                      \o << Event("model:RiskManager", symbol, "ok"),
                            Event("evaluate_trade", symbol, "raise") >>
                 /\ ProcessingError("could not convert string to float")
                 /\ UNCHANGED <<message_history, shared_context>>
            ELSE LET evaluation == _parse_evaluation(text,
                                       market_analysis[1].current_price,
                                       portfolio_state[1])
                     hub == broadcast(message_history, shared_context,
                                "RiskManager",
                                [symbol |-> symbol,
                                 action |-> potential_action[1],
                                 evaluation |-> evaluation])
                 IN /\ calls' = calls
                         \o << Event("model:RiskManager", symbol, "ok"),
                               Event("evaluate_trade", symbol, "ok") >>
                    /\ message_history' = hub[1]
                    /\ shared_context' = hub[2]
                    /\ risk_evaluation' = Some(evaluation)
                    /\ cpc' = "constraints"
                    /\ UNCHANGED <<ci, decisions, market_analysis,
                                   existing_position, potential_action,
                                   portfolio_constraints>>
       \/ /\ calls' = calls
               \o << Event("model:RiskManager", symbol, "raise"),
                     Event("evaluate_trade", symbol, "raise") >>
          /\ ProcessingError("model call failed")
          /\ UNCHANGED <<message_history, shared_context>>
    /\ UNCHANGED <<entry, auxVars, pilotVars, agents, current_state, portfolio_state,
                   tools_called, cexc>>

\* Step 4: portfolio_manager.check_trade_constraints (lines 127-132)
CheckConstraints ==
    /\ entry = "cycle" /\ cpc = "constraints"
    /\ LET symbol == watchlist[ci] IN
       /\ calls' = Append(calls, Event("check_trade_constraints", symbol, "ok"))
       /\ portfolio_constraints' =
            Some(check_trade_constraints(current_state[1], symbol,
                     potential_action[1],
                     risk_evaluation[1].recommended_quantity))
    /\ cpc' = "decide"
    /\ UNCHANGED <<entry, auxVars, pilotVars, ci, hubVars, current_state, portfolio_state,
                   market_analysis, existing_position, potential_action,
                   risk_evaluation, decisions, tools_called, cexc>>

\* Step 5: execution_agent.make_decision and lines 147-149
Decide ==
    /\ entry = "cycle" /\ cpc = "decide"
    /\ LET symbol == watchlist[ci] IN
       \/ \E text \in ExecTexts :
            LET decision == _parse_decision(text, risk_evaluation[1],
                                            existing_position[1])
                hub == broadcast(message_history, shared_context,
                           "ExecutionAgent",
                           [symbol |-> symbol, decision |-> decision])
            IN /\ calls' = calls
                    \o << Event("model:ExecutionAgent", symbol, "ok"),
                          Event("make_decision", symbol, "ok") >>
               /\ message_history' = hub[1]
               /\ shared_context' = hub[2]
               /\ decisions' = Append(decisions, [symbol |-> symbol] @@ decision)
               /\ market_analysis' = None
               /\ NextSymbol
       \/ /\ calls' = calls
               \o << Event("model:ExecutionAgent", symbol, "raise"),
                     Event("make_decision", symbol, "raise") >>
          /\ ProcessingError("model call failed")
          /\ UNCHANGED <<message_history, shared_context>>
    /\ UNCHANGED <<entry, auxVars, pilotVars, agents, current_state, portfolio_state,
                   tools_called, cexc>>

CycleNext ==
    \/ StartCycle
    \/ LoadPortfolio
    \/ Analyze
    \/ RiskEvaluate
    \/ CheckConstraints
    \/ Decide

\* ------------------------------------------- AgentCommunicationHub, called
\* Most messages the history holds in the runs of the hub's operations.
MaxMessages == 2
\* The names the hub's operations are called with.
HubCallers == {"", "MarketAnalyst"}
\* The content mappings broadcast, the query asked and the update merged.
HubContents == {[symbol |-> "NVDA"], [symbol |-> "TSLA"]}
HubQuery == [question |-> "position"]
HubUpdates == {[note |-> "x"]}
\* The limits get_message_history is called with.
HistoryLimits == {0, 1, 2}

\* a mapping with no key ({})
EmptyMapping == [k \in {} |-> None]

\* `if agent_name:` for an Optional[str]: None and "" are false
Truthy(agent_name) == agent_name # None /\ agent_name[1] # ""

QueryMessage(from_agent, to_agent, query) ==
    [from_agent   |-> from_agent,
     to_agent     |-> Some(to_agent),
     message_type |-> "query",
     content      |-> query]

\* Mutant of query_agent: the query is answered without being recorded.
query_agentNotRecorded(hist, ctx, from_agent, to_agent, query) ==
    <<hist, ctx[to_agent]>>

\* hub.query_agent: the query is appended to the history and the target's
\* shared context is returned. Gives <<message_history, returned value>>.
query_agent(hist, ctx, from_agent, to_agent, query) ==
    <<Append(hist, QueryMessage(from_agent, to_agent, query)), ctx[to_agent]>>

\* hub.get_shared_context
get_shared_context(ctx, agent_name) ==
    IF Truthy(agent_name)
    THEN IF ctx[agent_name[1]] = None THEN EmptyMapping
         ELSE ctx[agent_name[1]][1]
    ELSE [a \in {k \in DOMAIN ctx : ctx[k] # None} |-> ctx[a][1]]

\* hub.update_shared_context: dict.update on the agent's entry, created
\* empty when absent
update_shared_context(ctx, agent_name, updates) ==
    [ctx EXCEPT ![agent_name] =
        IF @ = None THEN Some(updates) ELSE Some(updates @@ @[1])]

\* hub.get_message_history: messages[-limit:] of the filtered history
get_message_history(hist, agent_name, limit) ==
    LET Involves(m) == m.from_agent = agent_name[1] \/ m.to_agent = agent_name
        messages == IF Truthy(agent_name) THEN SelectSeq(hist, Involves)
                    ELSE hist
        n == Len(messages)
        \* -0 is 0: messages[-0:] is the whole list
        start == IF limit = 0 THEN 0 ELSE Max(n - limit, 0)
    IN SubSeq(messages, start + 1, n)

\* Mutant of clear: only the history is emptied.
clearHistoryOnly(hist, ctx) == <<(<<>>), ctx>>

\* hub.clear. Gives the hub's <<message_history, shared_context>>.
clear(hist, ctx) == <<(<<>>), EmptyContext>>

\* what a call on the hub leaves alone
notHubVars == <<pilotVars, cycleLocals, jobVars, probe, orchVars, storeVars>>

\* The record of a hub call: the operation, its arguments, what it
\* returned, and how many messages the history held before it.
HubCall(op, agent, content, result) ==
    Some([op |-> op, agent |-> agent, content |-> content, result |-> result,
          before |-> Len(message_history)])

RegisterAgent ==
    /\ entry = "hub"
    /\ \E agent_name \in {"Auditor"} :
         /\ agents' = agents \cup {agent_name}
         /\ hub_last' = HubCall("register_agent", Some(agent_name), None, None)
    /\ UNCHANGED <<entry, notHubVars, message_history, shared_context>>

Broadcast ==
    /\ entry = "hub"
    /\ Len(message_history) < MaxMessages
    /\ \E from_agent \in HubCallers, content \in HubContents :
         LET hub == broadcast(message_history, shared_context, from_agent, content)
         IN /\ message_history' = hub[1]
            /\ shared_context' = hub[2]
            /\ hub_last' = HubCall("broadcast", Some(from_agent), Some(content), None)
    /\ UNCHANGED <<entry, notHubVars, agents>>

QueryAgent ==
    /\ entry = "hub"
    /\ Len(message_history) < MaxMessages
    /\ \E to_agent \in HubCallers :
         LET asked == query_agent(message_history, shared_context,
                                  "RiskManager", to_agent, HubQuery)
         IN /\ message_history' = asked[1]
            /\ hub_last' = HubCall("query_agent", Some(to_agent), Some(HubQuery),
                                   asked[2])
    /\ UNCHANGED <<entry, notHubVars, agents, shared_context>>

\* get_shared_context(agent_name); `result` is what it returned and `content`
\* what the same agent broadcast in the call just before, if it did
GetSharedContext ==
    /\ entry = "hub"
    /\ \E agent_name \in {None} \cup {Some(a) : a \in HubCallers} :
         hub_last' = HubCall("get_shared_context", agent_name,
                        IF /\ hub_last # None
                           /\ hub_last[1].op = "broadcast"
                           /\ hub_last[1].agent = agent_name
                        THEN hub_last[1].content ELSE None,
                        get_shared_context(shared_context, agent_name))
    /\ UNCHANGED <<entry, notHubVars, hubVars>>

UpdateSharedContext ==
    /\ entry = "hub"
    /\ \E agent_name \in HubCallers, updates \in HubUpdates :
         /\ shared_context' =
                update_shared_context(shared_context, agent_name, updates)
         /\ hub_last' = HubCall("update_shared_context", Some(agent_name),
                                Some(updates), None)
    /\ UNCHANGED <<entry, notHubVars, agents, message_history>>

\* get_message_history(agent_name, limit); `content` is the limit
GetMessageHistory ==
    /\ entry = "hub"
    /\ \E agent_name \in {None} \cup {Some(a) : a \in HubCallers},
          limit \in HistoryLimits :
         hub_last' = HubCall("get_message_history", agent_name, Some(limit),
                        get_message_history(message_history, agent_name, limit))
    /\ UNCHANGED <<entry, notHubVars, hubVars>>

Clear ==
    /\ entry = "hub"
    /\ LET hub == clear(message_history, shared_context)
       IN /\ message_history' = hub[1]
          /\ shared_context' = hub[2]
    /\ hub_last' = HubCall("clear", None, None, None)
    /\ UNCHANGED <<entry, notHubVars, agents>>

HubNext ==
    \/ RegisterAgent
    \/ Broadcast
    \/ QueryAgent
    \/ GetSharedContext
    \/ UpdateSharedContext
    \/ GetMessageHistory
    \/ Clear

\* ------------------------------------------------- parse_proposal_from_text
\* float() of the numeral matched after "stop loss" or "target" raises
ParseProposalRaises(text, market_data) ==
    /\ ~text.hold
    /\ text.buy \/ text.sell
    /\ market_data # None
    /\ \/ text.stop # None /\ ~text.stop[1]
       \/ text.target # None /\ ~text.target[1]

\* The proposal, or None. market_data is the first get_market_data result
\* without error among the tool calls, or None.
parse_proposal_from_text(text, market_data) ==
    IF text.hold
    THEN Some([action |-> "HOLD", reasoning |-> "Conditions not favorable"])
    ELSE IF ~(text.buy \/ text.sell) \/ market_data = None
    THEN None
    ELSE Some([action       |-> IF text.buy THEN "BUY" ELSE "SELL",
               symbol       |-> market_data[1].symbol,
               quantity     |-> IF text.qty # None THEN text.qty[1]
                                ELSE DefaultQuantity,
               entry_price  |-> market_data[1].current_price,
               stop_loss    |-> IF text.stop # None THEN Some(text.stop[2])
                                ELSE None,
               target_price |-> IF text.target # None THEN Some(text.target[2])
                                ELSE None,
               confidence   |-> IF text.conf = None THEN DefaultConfidence
                                ELSE IF ~text.conf[1] THEN DefaultConfidence
                                ELSE IF text.conf[2] > 100
                                THEN text.conf[2] \div 100
                                ELSE text.conf[2]])

\* ------------------------------------- the parsers and the checker, called
\* The numeral after "confidence" in a text: none, one float() rejects, or
\* its value in hundredths (0.0, 0.8, 1.0, 80, 150).
ConfidenceNumerals ==
    {None, <<FALSE, 0>>, <<TRUE, 0>>, <<TRUE, 80>>, <<TRUE, 100>>,
     <<TRUE, 8000>>, <<TRUE, 15000>>}
\* A price in a text: none, "95.50." (float() rejects it), or 95.
PriceNumerals == {None, <<FALSE, 0>>, <<TRUE, 95>>}
\* A dollar amount in a text: none, "," (float("") raises), or 2000.
AmountNumerals == {None, <<FALSE, 0>>, <<TRUE, 2000>>}

CalledAnalystTexts == [conf : ConfidenceNumerals]
CalledPilotTexts ==
    [hold : BOOLEAN, sell : BOOLEAN, buy : BOOLEAN, qty : {None, Some(0)},
     conf : ConfidenceNumerals]
CalledExecTexts ==
    {t \in [hold : BOOLEAN, sell : BOOLEAN, buy : BOOLEAN, dontbuy : BOOLEAN,
            conf : ConfidenceNumerals] : t.dontbuy => t.buy}
CalledProposalTexts ==
    [hold : BOOLEAN, buy : BOOLEAN, sell : BOOLEAN, qty : {None, Some(3)},
     stop : PriceNumerals, target : {None}, conf : ConfidenceNumerals]
CalledRiskTexts ==
    [approved : BOOLEAN, rejected : BOOLEAN, high : BOOLEAN, low : {FALSE},
     position : AmountNumerals, stop : PriceNumerals, take : PriceNumerals]
\* market_analysis["market_data"].get("current_price"): missing, 0 or a price
CalledPrices == {None, Some(0), Some(QuotePrice)}
\* the existing_position dicts: a held position of the portfolio state (no
\* "exists" key), the default of get_position_info, one marked as existing
CalledPositions ==
    {[symbol |-> watchlist[1], quantity |-> 15, exists |-> None],
     [symbol |-> watchlist[1], quantity |-> 0, exists |-> Some(FALSE)],
     [symbol |-> watchlist[1], quantity |-> 15, exists |-> Some(TRUE)]}
CalledQuantities == {0, 10, 20}
CalledPositionCounts == {0, PAPER_MAX_POSITIONS}

\* what a call of a parser or of the checker leaves alone
notProbeVars == <<pilotVars, cycleVars, jobVars, hub_last, orchVars, storeVars>>

\* The record of a call: the function, the text it was given (or None), its
\* other arguments, whether it raised, and what it returned.
Called(fn, text, args, raised, result) ==
    Some([fn |-> fn, text |-> text, args |-> args, raised |-> raised,
          result |-> result])

ExtractConfidenceCall ==
    /\ entry = "call" /\ probe = None
    /\ \E text \in CalledAnalystTexts :
         probe' = Called("_extract_confidence", Some(text), <<>>, FALSE,
                         [confidence |-> _extract_confidence(text)])
    /\ UNCHANGED <<entry, notProbeVars>>

ParseDecisionCall ==
    /\ entry = "call" /\ probe = None
    /\ \E text \in CalledExecTexts, pos \in CalledPositions :
         probe' = Called("_parse_decision", Some(text), <<pos>>, FALSE,
                         _parse_decision(text, [recommended_quantity |-> 20], pos))
    /\ UNCHANGED <<entry, notProbeVars>>

ParseAutonomousDecisionCall ==
    /\ entry = "call" /\ probe = None
    /\ \E text \in CalledPilotTexts, quantity \in HeldQuantities :
         LET pos == ExistingPosition([s \in Symbols |-> quantity], watchlist[1])
         IN probe' = Called("parse_autonomous_decision", Some(text), <<pos>>,
                            FALSE,
                            parse_autonomous_decision(watchlist[1], text, pos))
    /\ UNCHANGED <<entry, notProbeVars>>

ParseProposalCall ==
    /\ entry = "call" /\ probe = None
    /\ \E text \in CalledProposalTexts,
          market_data \in {None, Some([symbol |-> watchlist[1],
                                       current_price |-> QuotePrice])} :
         probe' = IF ParseProposalRaises(text, market_data)
                  THEN Called("parse_proposal_from_text", Some(text),
                              <<market_data>>, TRUE, None)
                  ELSE Called("parse_proposal_from_text", Some(text),
                              <<market_data>>, FALSE,
                              parse_proposal_from_text(text, market_data))
    /\ UNCHANGED <<entry, notProbeVars>>

\* _parse_evaluation(text, current_price, portfolio_state): with no current
\* price, current_price * 0.95 or current_price - stop_loss raises TypeError
ParseEvaluationCall ==
    /\ entry = "call" /\ probe = None
    /\ \E text \in CalledRiskTexts, current_price \in CalledPrices :
         probe' = IF ParseEvaluationRaises(text) \/ current_price = None
                  THEN Called("_parse_evaluation", Some(text), <<current_price>>,
                              TRUE, None)
                  ELSE Called("_parse_evaluation", Some(text), <<current_price>>,
                              FALSE,
                              _parse_evaluation(text, current_price[1],
                                  PortfolioState([s \in Symbols |-> 0],
                                                 100000, 0)))
    /\ UNCHANGED <<entry, notProbeVars>>

CheckTradeConstraintsCall ==
    /\ entry = "call" /\ probe = None
    /\ \E held \in HeldQuantities, cash \in CashLevels,
          others \in CalledPositionCounts, action \in {"BUY", "SELL", "HOLD"},
          quantity \in CalledQuantities :
         LET ps == PortfolioState([s \in Symbols |-> IF s = watchlist[1]
                                                     THEN held ELSE 0],
                                  cash, others)
         IN probe' = Called("check_trade_constraints", None,
                            <<ps, watchlist[1], action, quantity>>, FALSE,
                            check_trade_constraints(ps, watchlist[1], action,
                                                    quantity))
    /\ UNCHANGED <<entry, notProbeVars>>

CallNext ==
    \/ ExtractConfidenceCall
    \/ ParseDecisionCall
    \/ ParseAutonomousDecisionCall
    \/ ParseProposalCall
    \/ ParseEvaluationCall
    \/ CheckTradeConstraintsCall

\* ------------------------------------------------ run_orchestrator_streaming
MaxChunks == 3

\* The texts the model accumulates: HOLD/WAIT/NO TRADE or not, BUY or not,
\* and a stop loss that is absent or one float() rejects.
OrchTexts ==
    {t \in CalledProposalTexts :
        /\ ~t.sell /\ t.qty = None /\ t.conf = None
        /\ t.stop \in {None, <<FALSE, 0>>}}

notOrchVars == <<pilotVars, cycleVars, jobVars, hub_last, probe, storeVars>>

\* yield {"type": type, ...}
Yield(type) == emitted' = Append(emitted, type)

\* The except clause of the generator: the trace is saved with status ERROR
\* and an error event is yielded; when that save raises too, the generator
\* raises and yields nothing more.
OrchExcept ==
    \E save_ok \in BOOLEAN :
        IF save_ok
        THEN Yield("error") /\ opc' = "done"
        ELSE emitted' = emitted /\ opc' = "raised"

\* the first yield, before the try block
OrchStart ==
    /\ entry = "orchestrator" /\ opc = "idle"
    /\ Yield("status")
    /\ opc' = "stream"
    /\ UNCHANGED <<entry, notOrchVars, ochunks, tool_calls_made,
                   accumulated_text, proposal>>

\* a chunk of the response with text
ChunkText ==
    /\ entry = "orchestrator" /\ opc = "stream"
    /\ ochunks < MaxChunks
    /\ Yield("thinking")
    /\ ochunks' = ochunks + 1
    /\ UNCHANGED <<entry, notOrchVars, opc, tool_calls_made, accumulated_text,
                   proposal>>

\* a part of a chunk with a function call
ToolCall ==
    /\ entry = "orchestrator" /\ opc = "stream"
    /\ ochunks < MaxChunks
    /\ Yield("tool_call")
    /\ opc' = "tool"
    /\ ochunks' = ochunks + 1
    /\ UNCHANGED <<entry, notOrchVars, tool_calls_made, accumulated_text,
                   proposal>>

\* Mutant of ToolResult: the result is recorded but no event is yielded.
ToolResultNotYielded ==
    /\ entry = "orchestrator" /\ opc = "tool"
    /\ \E good \in BOOLEAN :
         tool_calls_made' =
            IF tool_calls_made = None /\ good
            THEN Some([symbol |-> watchlist[1], current_price |-> QuotePrice])
            ELSE tool_calls_made
    /\ opc' = "followup"
    /\ UNCHANGED <<entry, notOrchVars, emitted, ochunks, accumulated_text,
                   proposal>>

\* execute_tool returns (it catches every exception), the call is recorded
\* and its result yielded; `good` says it was get_market_data without error
ToolResult ==
    /\ entry = "orchestrator" /\ opc = "tool"
    /\ \E good \in BOOLEAN :
         tool_calls_made' =
            IF tool_calls_made = None /\ good
            THEN Some([symbol |-> watchlist[1], current_price |-> QuotePrice])
            ELSE tool_calls_made
    /\ Yield("tool_result")
    /\ opc' = "followup"
    /\ UNCHANGED <<entry, notOrchVars, ochunks, accumulated_text, proposal>>

\* a chunk with text of the response to the function result
FollowupText ==
    /\ entry = "orchestrator" /\ opc = "followup"
    /\ ochunks < MaxChunks
    /\ Yield("thinking")
    /\ ochunks' = ochunks + 1
    /\ UNCHANGED <<entry, notOrchVars, opc, tool_calls_made, accumulated_text,
                   proposal>>

\* the response to the function result is exhausted: back to the outer loop
FollowupEnds ==
    /\ entry = "orchestrator" /\ opc = "followup"
    /\ opc' = "stream"
    /\ UNCHANGED <<entry, notOrchVars, emitted, ochunks, tool_calls_made,
                   accumulated_text, proposal>>

\* the first response is exhausted
StreamEnds ==
    /\ entry = "orchestrator" /\ opc = "stream"
    /\ Yield("status")
    /\ opc' = "proposing"
    /\ UNCHANGED <<entry, notOrchVars, ochunks, tool_calls_made,
                   accumulated_text, proposal>>

\* parse_proposal_from_text(accumulated_text, tool_calls_made)
ParseProposal ==
    /\ entry = "orchestrator" /\ opc = "proposing"
    /\ \E text \in OrchTexts :
         /\ accumulated_text' = Some(text)
         /\ IF ParseProposalRaises(text, tool_calls_made)
            THEN OrchExcept /\ proposal' = proposal
            ELSE /\ proposal' = parse_proposal_from_text(text, tool_calls_made)
                 /\ opc' = IF proposal' = None THEN "ask" ELSE "decided"
                 /\ emitted' = emitted
    /\ UNCHANGED <<entry, notOrchVars, ochunks, tool_calls_made>>

\* a chunk with text of the explicit recommendation
AskText ==
    /\ entry = "orchestrator" /\ opc = "ask"
    /\ ochunks < MaxChunks
    /\ Yield("thinking")
    /\ ochunks' = ochunks + 1
    /\ UNCHANGED <<entry, notOrchVars, opc, tool_calls_made, accumulated_text,
                   proposal>>

\* The recommendation is exhausted and the longer text is parsed; the first
\* stop loss of the text is still the one the pattern finds.
AskEnds ==
    /\ entry = "orchestrator" /\ opc = "ask"
    /\ \E text \in OrchTexts :
         /\ accumulated_text[1].stop # None => text.stop = accumulated_text[1].stop
         /\ accumulated_text' = Some(text)
         /\ IF ParseProposalRaises(text, tool_calls_made)
            THEN OrchExcept /\ proposal' = proposal
            ELSE /\ proposal' = parse_proposal_from_text(text, tool_calls_made)
                 /\ opc' = "decided"
                 /\ emitted' = emitted
    /\ UNCHANGED <<entry, notOrchVars, ochunks, tool_calls_made>>

\* The trace is saved and the proposal yielded: HOLD when there is none, and
\* a failure of propose_trade is recorded in the proposal.
YieldProposal ==
    /\ entry = "orchestrator" /\ opc = "decided"
    /\ proposal' = IF proposal = None
                   THEN Some([action |-> "HOLD", reasoning |-> "No clear trading setup"])
                   ELSE proposal
    /\ Yield("proposal")
    /\ opc' = "proposed"
    /\ UNCHANGED <<entry, notOrchVars, ochunks, tool_calls_made, accumulated_text>>

YieldComplete ==
    /\ entry = "orchestrator" /\ opc = "proposed"
    /\ Yield("complete")
    /\ opc' = "done"
    /\ UNCHANGED <<entry, notOrchVars, ochunks, tool_calls_made,
                   accumulated_text, proposal>>

\* An exception inside the try block: from the model (creating it, sending a
\* message, reading a chunk) or from save_agent_run before the proposal.
OrchFails ==
    /\ entry = "orchestrator"
    /\ opc \in {"stream", "followup", "ask", "decided"}
    /\ OrchExcept
    /\ UNCHANGED <<entry, notOrchVars, ochunks, tool_calls_made,
                   accumulated_text, proposal>>

\* Mutant of event_generator: the events are forwarded without the except
\* clause.
event_generatorNoCatch(evs, raised) == evs

\* analyze_intent.event_generator: every event of the generator is written to
\* the response, and an exception out of the generator is written as one
\* more error event.
event_generator(evs, raised) ==
    IF raised THEN Append(evs, "error") ELSE evs

OrchNext ==
    \/ OrchStart
    \/ ChunkText
    \/ ToolCall
    \/ ToolResult
    \/ FollowupText
    \/ FollowupEnds
    \/ StreamEnds
    \/ ParseProposal
    \/ AskText
    \/ AskEnds
    \/ YieldProposal
    \/ YieldComplete
    \/ OrchFails

\* ------------------------------------- scheduler job and POST /jobs/run-pilot
\* add_job(..., id="autonomous_pilot", max_instances=1)
max_instances == 1
\* Requests to POST /jobs/run-pilot that can be in progress at once.
MaxManualRuns == 2

\* what a step of the scheduler or of the endpoint leaves alone
notJobVars == <<pilotVars, cycleVars, hub_last, probe, orchVars, storeVars>>

\* The cron trigger fires: the scheduler starts autonomous_pilot_job unless
\* max_instances runs of that job are still running (the firing is skipped).
CronFires ==
    /\ entry = "jobs"
    /\ job_instances < max_instances
    /\ job_instances' = job_instances + 1
    /\ UNCHANGED <<entry, notJobVars, manual_runs>>

\* autonomous_pilot_job returns or raises
PilotJobEnds ==
    /\ entry = "jobs"
    /\ job_instances > 0
    /\ job_instances' = job_instances - 1
    /\ UNCHANGED <<entry, notJobVars, manual_runs>>

\* POST /jobs/run-pilot: the handler awaits run_autonomous_pilot() at once
trigger_pilot_run ==
    /\ entry = "jobs"
    /\ manual_runs < MaxManualRuns
    /\ manual_runs' = manual_runs + 1
    /\ UNCHANGED <<entry, notJobVars, job_instances>>

\* the handler's run returns or raises and the response is sent
TriggerEnds ==
    /\ entry = "jobs"
    /\ manual_runs > 0
    /\ manual_runs' = manual_runs - 1
    /\ UNCHANGED <<entry, notJobVars, job_instances>>

JobsNext ==
    \/ CronFires
    \/ PilotJobEnds
    \/ trigger_pilot_run
    \/ TriggerEnds

\* ------------------------------------------ orders and the paper account
\* Most calls of execute_paper_trade, propose_trade and the two endpoints.
MaxCalls == 2
\* The calls that can be in progress at once: two pilot runs, or requests.
Requests == {"first", "second"}
\* accounts.starting_cash, and the quantity every trade asks for: one BUY
\* at QuotePrice is affordable, two are not.
StartingCash == 10 * QuotePrice
TradeQuantities == {6}
Sides == {"BUY", "SELL"}

notStoreVars == <<pilotVars, cycleVars, jobVars, hub_last, probe, orchVars>>

IdleTask ==
    [op |-> "none", pc |-> "idle", side |-> "BUY", quantity |-> 0,
     order |-> 0, read |-> None]

\* the call has ended or has not begun
AtRest(task) == task.pc \in {"idle", "returned", "raised"}

\* A call begins in slot r; the second slot is for a call that overlaps one
\* in progress.
Begin(r, task) ==
    /\ AtRest(tasks[r])
    /\ ncalls < MaxCalls
    /\ r = "second" => ~AtRest(tasks["first"])
    /\ tasks' = [tasks EXCEPT ![r] = task]
    /\ ncalls' = ncalls + 1

\* the call in slot r ends: its locals are gone, an exception stays with
\* the caller
Finish(r, pc_) ==
    tasks' = [tasks EXCEPT ![r] =
                 IF pc_ = "raised"
                 THEN [IdleTask EXCEPT !.op = tasks[r].op, !.pc = pc_]
                 ELSE IdleTask]

Goto(r, pc_) == tasks' = [tasks EXCEPT ![r].pc = pc_]

\* validate_trade(account_id, symbol, side, quantity, price)
validate_trade(cash, held, side, quantity, price) ==
    IF side = "BUY" THEN quantity * price <= cash
    ELSE IF side = "SELL" THEN held > 0 /\ held >= quantity
    ELSE FALSE

\* create_paper_order: a new row in PROPOSED status; origin names the
\* caller, cash_effects counts the cash updates made for the order and
\* rejected tells that reject_order marked it
NewOrder(origin, side, quantity) ==
    [origin |-> origin, side |-> side, quantity |-> quantity,
     status |-> "PROPOSED", cash_effects |-> 0, rejected |-> FALSE]

\* update_position_after_trade raises: a SELL without enough shares
UpdatePositionRaises(held, side, quantity) ==
    side = "SELL" /\ (held = 0 \/ held < quantity)

\* update_position_after_trade: the quantity of the symbol's row afterwards
update_position_after_trade(held, side, quantity) ==
    IF side = "BUY" THEN held + quantity ELSE held - quantity

\* ---- execute_paper_trade
\* the account row is loaded: its cash_balance stays as read in the session
ExecuteBegin ==
    /\ entry = "store"
    /\ \E r \in Requests, side \in Sides, quantity \in TradeQuantities :
         Begin(r, [IdleTask EXCEPT !.op = "execute", !.pc = "loaded",
                                     !.side = side, !.quantity = quantity,
                                     !.read = Some(cash_balance)])
    /\ UNCHANGED <<entry, notStoreVars, cash_balance, position_quantity, orders>>

\* validate_trade on the store as it is now, then create_paper_order
ExecuteValidate ==
    /\ entry = "store"
    /\ \E r \in Requests :
         /\ tasks[r].op = "execute" /\ tasks[r].pc = "loaded"
         /\ IF ~validate_trade(cash_balance, position_quantity, tasks[r].side,
                               tasks[r].quantity, QuotePrice)
            THEN Finish(r, "raised") /\ orders' = orders
            ELSE /\ orders' = Append(orders, NewOrder("execute_paper_trade",
                                                 tasks[r].side, tasks[r].quantity))
                 /\ tasks' = [tasks EXCEPT ![r].pc = "created",
                                           ![r].order = Len(orders) + 1]
    /\ UNCHANGED <<entry, notStoreVars, ncalls, cash_balance, position_quantity>>

\* fill_order, which commits
ExecuteFill ==
    /\ entry = "store"
    /\ \E r \in Requests :
         /\ tasks[r].op = "execute" /\ tasks[r].pc = "created"
         /\ orders' = [orders EXCEPT ![tasks[r].order].status = "FILLED"]
         /\ Goto(r, "filled")
    /\ UNCHANGED <<entry, notStoreVars, ncalls, cash_balance, position_quantity>>

\* new_balance = float(account.cash_balance) -/+ cost, from the row as it
\* was loaded, written and committed
ExecutePay ==
    /\ entry = "store"
    /\ \E r \in Requests :
         /\ tasks[r].op = "execute" /\ tasks[r].pc = "filled"
         /\ cash_balance' =
               IF tasks[r].side = "BUY"
               THEN tasks[r].read[1] - tasks[r].quantity * QuotePrice
               ELSE tasks[r].read[1] + tasks[r].quantity * QuotePrice
         /\ orders' = [orders EXCEPT ![tasks[r].order].cash_effects = @ + 1]
         /\ Goto(r, "paid")
    /\ UNCHANGED <<entry, notStoreVars, ncalls, position_quantity>>

\* update_position_after_trade, in a session of its own, ends either call
UpdatePosition ==
    /\ entry = "store"
    /\ \E r \in Requests :
         /\ tasks[r].op \in {"execute", "approve"} /\ tasks[r].pc = "paid"
         /\ IF UpdatePositionRaises(position_quantity, tasks[r].side, tasks[r].quantity)
            THEN Finish(r, "raised") /\ position_quantity' = position_quantity
            ELSE /\ position_quantity' =
                      update_position_after_trade(position_quantity,
                                                  tasks[r].side, tasks[r].quantity)
                 /\ Finish(r, "returned")
    /\ UNCHANGED <<entry, notStoreVars, ncalls, cash_balance, orders>>

\* get_market_data or a statement of the store raises: the call ends where
\* it is, and what it committed stays
RequestFails ==
    /\ entry = "store"
    /\ \E r \in Requests :
         /\ tasks[r].op \in {"execute", "approve"}
         /\ tasks[r].pc \in {"loaded", "created", "filled", "paid", "approved"}
         /\ Finish(r, "raised")
    /\ UNCHANGED <<entry, notStoreVars, ncalls, cash_balance, position_quantity, orders>>

\* ---- propose_trade: validate_trade, then an order in PROPOSED status; one
\* proposal is followed through its approvals and rejections
propose_trade ==
    /\ entry = "store"
    /\ \A o \in 1..Len(orders) : orders[o].origin # "propose_trade"
    /\ \E side \in Sides, quantity \in TradeQuantities :
         /\ validate_trade(cash_balance, position_quantity, side, quantity,
                           QuotePrice)
         /\ orders' = Append(orders, NewOrder("propose_trade", side, quantity))
    /\ UNCHANGED <<entry, notStoreVars, cash_balance, position_quantity, tasks,
                   ncalls>>

\* ---- POST /orders/{order_id}/approve
\* the endpoint selects the order: the row stays in the session as read
ApproveBegin ==
    /\ entry = "store"
    /\ \E r \in Requests, o \in 1..Len(orders) :
         /\ Begin(r, [IdleTask EXCEPT !.op = "approve", !.pc = "read",
                                     !.side = orders[o].side,
                                     !.quantity = orders[o].quantity,
                                     !.order = o,
                                     !.read = Some(orders[o].status)])
    /\ UNCHANGED <<entry, notStoreVars, cash_balance, position_quantity, orders>>

\* approve_order: ValueError unless the order read is PROPOSED, else the
\* status APPROVED is committed
approve_order ==
    /\ entry = "store"
    /\ \E r \in Requests :
         /\ tasks[r].op = "approve" /\ tasks[r].pc = "read"
         /\ IF tasks[r].read[1] # "PROPOSED"
            THEN Finish(r, "raised") /\ orders' = orders
            ELSE /\ orders' = [orders EXCEPT ![tasks[r].order].status = "APPROVED"]
                 /\ Goto(r, "approved")
    /\ UNCHANGED <<entry, notStoreVars, ncalls, cash_balance, position_quantity>>

\* fill_order and the UPDATE of cash_balance by the cost or the proceeds
ApproveFill ==
    /\ entry = "store"
    /\ \E r \in Requests :
         /\ tasks[r].op = "approve" /\ tasks[r].pc = "approved"
         /\ orders' = [orders EXCEPT ![tasks[r].order].status = "FILLED",
                                     ![tasks[r].order].cash_effects = @ + 1]
         /\ cash_balance' =
               IF tasks[r].side = "BUY"
               THEN cash_balance - tasks[r].quantity * QuotePrice
               ELSE cash_balance + tasks[r].quantity * QuotePrice
         /\ Goto(r, "paid")
    /\ UNCHANGED <<entry, notStoreVars, ncalls, position_quantity>>

\* ---- POST /orders/{order_id}/reject
RejectBegin ==
    /\ entry = "store"
    /\ \E r \in Requests, o \in 1..Len(orders) :
         /\ Begin(r, [IdleTask EXCEPT !.op = "reject", !.pc = "read",
                                     !.side = orders[o].side,
                                     !.quantity = orders[o].quantity,
                                     !.order = o,
                                     !.read = Some(orders[o].status)])
    /\ UNCHANGED <<entry, notStoreVars, cash_balance, position_quantity, orders>>

\* reject_order: ValueError unless the order read is PROPOSED
reject_order ==
    /\ entry = "store"
    /\ \E r \in Requests :
         /\ tasks[r].op = "reject" /\ tasks[r].pc = "read"
         /\ IF tasks[r].read[1] # "PROPOSED"
            THEN Finish(r, "raised") /\ orders' = orders
            ELSE /\ orders' = [orders EXCEPT ![tasks[r].order].status = "REJECTED",
                                            ![tasks[r].order].rejected = TRUE]
                 /\ Finish(r, "returned")
    /\ UNCHANGED <<entry, notStoreVars, ncalls, cash_balance, position_quantity>>

StoreNext ==
    \/ ExecuteBegin
    \/ ExecuteValidate
    \/ ExecuteFill
    \/ ExecutePay
    \/ UpdatePosition
    \/ RequestFails
    \/ propose_trade
    \/ ApproveBegin
    \/ approve_order
    \/ ApproveFill
    \/ RejectBegin
    \/ reject_order

\* ---------------------------------------------------------- specification
Accounts == [Symbols -> HeldQuantities]

\* A broadcast of an earlier trading cycle of the same coordinator.
EarlierMessage == BroadcastMessage("PortfolioManager", [earlier_cycle |-> TRUE])

\* The state after construction of the machine `entry` names.
Start ==
    /\ pc = "idle"
    /\ trace = InitialTrace
    /\ account \in IF entry \in {"pilot", "cycle"} THEN Accounts
                   ELSE {[s \in Symbols |-> 0]}
    /\ portfolio = [s \in Symbols |-> 0]
    /\ idx = 1
    /\ exc = None
    /\ outcome = "running"
    /\ events = <<>>
    /\ savedTrace = None
    /\ agent_runs = <<>>
    /\ cpc = "idle"
    /\ ci = 1
    /\ agents = AgentNames
    \* a coordinator that ran a cycle before starts the next one with what
    \* that cycle left in its hub
    /\ \E leftover \in BOOLEAN :
         IF leftover /\ entry = "cycle"
         THEN /\ message_history = <<EarlierMessage>>
              /\ shared_context = [EmptyContext EXCEPT
                                      ![EarlierMessage.from_agent] =
                                          Some(EarlierMessage.content)]
         ELSE /\ message_history = <<>>
              /\ shared_context = EmptyContext
    /\ current_state = None
    /\ portfolio_state = None
    /\ market_analysis = None
    /\ existing_position = None
    /\ potential_action = None
    /\ risk_evaluation = None
    /\ portfolio_constraints = None
    /\ decisions = <<>>
    /\ tools_called = <<>>
    /\ calls = <<>>
    /\ cexc = None
    /\ job_instances = 0
    /\ manual_runs = 0
    /\ hub_last = None
    /\ probe = None
    /\ opc = "idle"
    /\ emitted = <<>>
    /\ ochunks = 0
    /\ tool_calls_made = None
    /\ accumulated_text = None
    /\ proposal = None
    /\ cash_balance = StartingCash
    /\ position_quantity \in IF entry = "store" THEN {0} \cup TradeQuantities ELSE {0}
    /\ orders = <<>>
    /\ tasks = [r \in Requests |-> IdleTask]
    /\ ncalls = 0

Init ==
    /\ entry \in {"pilot", "cycle", "jobs", "hub", "call", "orchestrator"}
    /\ Start

Next ==
    PilotNext \/ CycleNext \/ JobsNext \/ HubNext \/ CallNext \/ OrchNext

Spec == Init /\ [][Next]_vars

\* The orders and the paper account, on their own.
StoreInit ==
    /\ entry = "store"
    /\ Start

StoreSpec == StoreInit /\ [][StoreNext]_vars

\* ================================================================= claims
\* ------------------------------------------------------------------ pilot
\* positions in the log of the calls to `call`
CallsOf(call) == {k \in 1..Len(events) : events[k].call = call}

\* positions in the log of the execute_paper_trade calls for decision i
Submissions(i) ==
    {k \in CallsOf("execute_paper_trade") : events[k].arg = i}

\* the ACT loop has gone through every decision
ActOver ==
    \/ pc \in {"reflect", "snapshot"}
    \/ /\ pc \in {"finally", "done"}
       /\ \/ exc = None
          \/ exc # None /\ exc[1].at \in {"REFLECT", "SNAPSHOT"}

\* the ACT loop has dealt with decision i (the last one possibly by a
\* submission that was cancelled)
Handled(i) ==
    \/ pc = "act" /\ i < idx
    \/ ActOver
    \/ pc \in {"finally", "done"} /\ exc # None /\ exc[1].at = "ACT" /\ i <= idx

\* C1: every execution of run_autonomous_pilot, however it ends, calls
\* save_agent_run on its trace exactly once, and that call is the last step
\* of the run: the trace is not changed after it.
C1_TraceSavedExactlyOnceAtEnd ==
    /\ Cardinality(CallsOf("save_agent_run")) <= 1
    /\ CallsOf("save_agent_run") # {} => pc = "done"
    /\ pc = "done" =>
         /\ Cardinality(CallsOf("save_agent_run")) = 1
         /\ events[Len(events)].call = "save_agent_run"
         /\ savedTrace = Some(trace)

C1_Witness ==
    /\ pc = "done"
    /\ exc # None /\ exc[1].type = "Exception"
    /\ CallsOf("save_agent_run") # {}

\* C2: a trade that raises is recorded as trade_error on its own decision
\* only, every later decision that qualifies is still submitted, and the run
\* goes on: it does not end in ERROR because of the trade.
C2_TradeFailureIsolated ==
    /\ \A i \in 1..Len(trace.decisions) :
         /\ trace.decisions[i].trade_error # None
              <=> \E k \in Submissions(i) : events[k].result = "raise"
         /\ trace.decisions[i].trade_result # None
              <=> \E k \in Submissions(i) : events[k].result = "ok"
    /\ ActOver =>
         \A i \in 1..Len(trace.decisions) :
            LET d == trace.decisions[i] IN
            (d.action \in {"BUY", "SELL"} /\ d.quantity # None /\ d.quantity[1] # 0)
               => Cardinality(Submissions(i)) = 1
    /\ \A k \in CallsOf("execute_paper_trade") :
         (events[k].result = "raise" /\ k = Len(events))
            => pc \in {"act", "reflect"} /\ trace.status = "RUNNING"
    /\ trace.error # Some(ErrMsg("ACT"))

C2_Witness ==
    /\ ActOver
    /\ Len(trace.decisions) >= 2
    /\ trace.decisions[1].trade_error # None
    /\ trace.decisions[2].trade_result # None

\* the pilot's part of C4: when the initial portfolio load raises, the run raises
\* to its caller, the trace handed to save_agent_run has status ERROR and the
\* error message, and no symbol was analysed and no trade submitted.
PilotLoadFailed ==
    Len(events) >= 1 /\ events[1] = Event("get_portfolio_state", 0, "raise")

C4_PilotLoadFailure ==
    PilotLoadFailed =>
        /\ pc \in {"finally", "done"}
        /\ trace.status = "ERROR"
        /\ trace.error = Some("PERCEIVE failed")
        /\ trace.decisions = <<>>
        /\ trace.tools_called = 0
        /\ CallsOf("analyze_symbol_for_autonomous") = {}
        /\ CallsOf("execute_paper_trade") = {}
        /\ pc = "done" =>
              /\ outcome = "raised"
              /\ savedTrace = Some(trace)
              /\ \A k \in 1..Len(agent_runs) : agent_runs[k].status = "ERROR"

\* C5: the trace starts RUNNING and is COMPLETE or ERROR when it is handed
\* to save_agent_run, on every exit path, cancellation included.
C5_SavedStatusIsFinal ==
    /\ pc = "perceive" => trace.status = "RUNNING"
    /\ savedTrace # None => savedTrace[1].status \in {"COMPLETE", "ERROR"}

\* C6 as claimed: a decision is submitted exactly once if its action is BUY
\* or SELL and its quantity is not None (0 included), and never otherwise.
C6_SubmittedIffNonNull ==
    \A i \in 1..Len(trace.decisions) :
        LET d == trace.decisions[i] IN
        /\ Cardinality(Submissions(i)) <= 1
        /\ ~Handled(i) => Submissions(i) = {}
        /\ Handled(i) =>
             (Cardinality(Submissions(i)) = 1
                <=> (d.action \in {"BUY", "SELL"} /\ d.quantity # None))

\* C6 as amended: a decision is submitted exactly once if its action is BUY
\* or SELL and its quantity is neither None nor 0, and never otherwise.
C6_SubmittedIffTruthy ==
    \A i \in 1..Len(trace.decisions) :
        LET d == trace.decisions[i] IN
        /\ Cardinality(Submissions(i)) <= 1
        /\ ~Handled(i) => Submissions(i) = {}
        /\ Handled(i) =>
             (Cardinality(Submissions(i)) = 1
                <=> (d.action \in {"BUY", "SELL"} /\ d.quantity # None
                     /\ d.quantity[1] # 0))

C6_Witness ==
    /\ ActOver
    /\ Len(trace.decisions) >= 2
    /\ trace.decisions[1].action = "BUY"
    /\ trace.decisions[1].quantity = Some(0)
    /\ Submissions(1) = {}
    /\ trace.decisions[2].action \in {"BUY", "SELL"}
    /\ Cardinality(Submissions(2)) = 1

\* ------------------------------------------------------------ coordinator
\* the calls of the cycle about symbol s
CallsAbout(s) == {k \in 1..Len(calls) : calls[k].arg = s}

\* the tools run for symbol s
ToolsFor(s) == {k \in 1..Len(tools_called) : tools_called[k].symbol = s}

\* an agent call of the cycle raised while symbol s was processed
RaisedFor(s) ==
    \E k \in CallsAbout(s) :
        /\ calls[k].result = "raise"
        /\ calls[k].call \in {"analyze_symbol", "evaluate_trade",
                              "check_trade_constraints", "make_decision"}

CycleLoadFailed ==
    Len(calls) >= 1 /\ calls[1] = Event("load_portfolio_state", "", "raise")

\* C3: an exception while one symbol is processed becomes a HOLD decision
\* with confidence 0.0 and the error in its reasoning, and the next symbol is
\* processed; once the portfolio is loaded a cycle that returns gives exactly
\* one decision per watchlist symbol, in watchlist order.
C3_SymbolFailureIsolated ==
    /\ Len(decisions) <= Len(watchlist)
    /\ \A i \in 1..Len(decisions) : decisions[i].symbol = watchlist[i]
    /\ cpc = "returned" => Len(decisions) = Len(watchlist)
    /\ \A i \in 1..Len(watchlist) :
         RaisedFor(watchlist[i]) =>
            /\ i <= Len(decisions)
            /\ decisions[i].action = "HOLD"
            /\ decisions[i].confidence = 0
            /\ decisions[i].quantity = None
            /\ decisions[i].reasoning \in
                 {"Processing error: model call failed",
                  "Processing error: could not convert string to float"}
            /\ i < Len(watchlist) => ci > i
    /\ cpc = "raised" =>
         \/ cexc = Some("CancelledError")
         \/ cexc = Some("load_portfolio_state failed") /\ portfolio_state = None

C3_Witness ==
    /\ cpc = "returned"
    /\ RaisedFor(watchlist[1])
    /\ decisions[1].action = "HOLD"
    /\ decisions[2].action = "BUY"

C4_CycleLoadFailure ==
    CycleLoadFailed =>
        /\ cpc = "raised"
        /\ cexc = Some("load_portfolio_state failed")
        /\ decisions = <<>>
        /\ Len(calls) = 1
        /\ tools_called = <<>>

\* C4: a failure of the initial portfolio load is fatal. The pilot raises to
\* its caller after handing save_agent_run a trace with status ERROR and the
\* error message, having analysed no symbol and submitted no trade; the
\* trading cycle raises without producing any decision.
C4_PortfolioLoadFailureIsFatal ==
    /\ C4_PilotLoadFailure
    /\ C4_CycleLoadFailure

C4_Witness ==
    /\ PilotLoadFailed
    /\ pc = "done"
    /\ outcome = "raised"
    /\ agent_runs # <<>>

\* the symbol's get_market_data answered with an error
MarketDataFailed(s) ==
    \E k \in ToolsFor(s) : tools_called[k] = ToolRecord("get_market_data", s, FALSE)

\* C7: when get_market_data answers with an error, analyze_symbol returns
\* an error dictionary without running another tool, asking the model or
\* broadcasting, the cycle records HOLD with confidence 0.0, and the risk
\* manager, the constraint check and the execution agent are not invoked for
\* the symbol.
C7_MarketDataErrorShortCircuits ==
    \A i \in 1..Len(watchlist) :
        LET s == watchlist[i] IN
        MarketDataFailed(s) =>
            /\ Cardinality(ToolsFor(s)) = 1
            /\ {calls[k] : k \in CallsAbout(s)} = {Event("analyze_symbol", s, "ok")}
            /\ \A k \in 1..Len(message_history) :
                 message_history[k].from_agent # "PortfolioManager"
                    => message_history[k].content.symbol # s
            /\ calls[Len(calls)].arg = s =>
                 market_analysis = Some([symbol |-> s, status |-> "error",
                                         error |-> "market data error"])
            /\ i <= Len(decisions)
            /\ decisions[i].action = "HOLD"
            /\ decisions[i].confidence = 0
            /\ decisions[i].quantity = None

C7_Witness ==
    /\ cpc = "returned"
    /\ MarketDataFailed(watchlist[1])
    /\ decisions[1].action = "HOLD"
    /\ ~MarketDataFailed(watchlist[2])

\* the symbol's analyze_technicals answered with an error
TechnicalsFailed(s) ==
    \E k \in ToolsFor(s) :
        tools_called[k] = ToolRecord("analyze_technicals", s, FALSE)

\* C8: an error from analyze_technicals is fatal for the symbol: the risk
\* evaluation, the constraint check and the execution decision are skipped
\* for it, and its decision is HOLD with the error as its reasoning.
C8_TechnicalsErrorIsFatal ==
    \A i \in 1..Len(watchlist) :
        LET s == watchlist[i] IN
        TechnicalsFailed(s) =>
            /\ \A k \in CallsAbout(s) :
                 calls[k].call \notin {"evaluate_trade", "model:RiskManager",
                                       "check_trade_constraints",
                                       "make_decision", "model:ExecutionAgent"}
            /\ i <= Len(decisions) =>
                 /\ decisions[i].action = "HOLD"
                 /\ decisions[i].reasoning # "text"

\* C9: the action proposed for a symbol is SELL exactly when a position in
\* it is held and BUY otherwise, and no BUY decision is returned for a held
\* symbol.
C9_SellIffHeld ==
    /\ potential_action # None =>
         potential_action[1] =
            IF current_state[1].positions[watchlist[ci]] > 0 THEN "SELL" ELSE "BUY"
    /\ \A i \in 1..Len(decisions) :
         decisions[i].action = "BUY"
            => current_state[1].positions[decisions[i].symbol] = 0

\* place of a message in the order of the cycle
MessageKey(m) ==
    IF m.from_agent = "PortfolioManager" THEN 0
    ELSE 3 * (CHOOSE i \in 1..Len(watchlist) : watchlist[i] = m.content.symbol)
         + (CASE m.from_agent = "MarketAnalyst" -> 0
              [] m.from_agent = "RiskManager" -> 1
              [] m.from_agent = "ExecutionAgent" -> 2)

\* the message at position k is from `agent` about symbol s
IsFrom(k, agent, s) ==
    /\ k \in 1..Len(message_history)
    /\ message_history[k].from_agent = agent
    /\ message_history[k].content.symbol = s

\* C10: in the hub's history of one trading cycle the PortfolioManager's broadcast
\* comes first, and then, symbol by symbol in watchlist order, the broadcast
\* of the MarketAnalyst, of the RiskManager and of the ExecutionAgent.
C10_MessageOrder ==
    entry = "cycle" =>
        /\ message_history # <<>> =>
             message_history[1].from_agent = "PortfolioManager"
        /\ \A k \in 2..Len(message_history) :
             /\ MessageKey(message_history[k - 1]) < MessageKey(message_history[k])
             /\ message_history[k].from_agent = "RiskManager" =>
                  IsFrom(k - 1, "MarketAnalyst", message_history[k].content.symbol)
             /\ message_history[k].from_agent = "ExecutionAgent" =>
                  IsFrom(k - 1, "RiskManager", message_history[k].content.symbol)
        /\ \A i \in 1..Len(decisions) :
             decisions[i].reasoning = "text" =>
                \E k \in 2..Len(message_history) :
                   /\ IsFrom(k, "MarketAnalyst", watchlist[i])
                   /\ IsFrom(k + 1, "RiskManager", watchlist[i])
                   /\ IsFrom(k + 2, "ExecutionAgent", watchlist[i])

C10_Witness ==
    /\ cpc = "returned"
    /\ Len(message_history) = 1 + 3 * Len(watchlist)

\* --------------------------------------------------------- starting a run
\* executions of run_autonomous_pilot in progress, however they were started
PilotRunsInProgress == job_instances + manual_runs

\* C11: at most one execution of run_autonomous_pilot is in progress at any
\* time, whether started by the scheduled job or by POST /jobs/run-pilot.
C11_AtMostOnePilotRun == PilotRunsInProgress <= 1

\* -------------------------------------------------------------------- hub
\* positions in the history of the broadcasts of agent a
BroadcastsOf(a) ==
    {k \in 1..Len(message_history) :
        /\ message_history[k].message_type = "broadcast"
        /\ message_history[k].from_agent = a}

\* the last call on the hub was `op`
LastHubCall(op) == hub_last # None /\ hub_last[1].op = op

\* C12: for every agent that has broadcast since the last clear() the shared
\* context holds the content of its most recent broadcast, and an agent that
\* has not broadcast since then has no entry, after any sequence of the
\* hub's operations.
C12_ContextIsLatestBroadcast ==
    \A a \in DOMAIN shared_context :
        IF BroadcastsOf(a) = {}
        THEN shared_context[a] = None
        ELSE LET last == CHOOSE k \in BroadcastsOf(a) :
                            \A j \in BroadcastsOf(a) : j <= k
             IN shared_context[a] = Some(message_history[last].content)

\* C12 as amended: the hub starts with the shared context of C12, every
\* operation other than update_shared_context keeps it so, and
\* update_shared_context(A, U) merges U into A's entry, creating the entry
\* when A has none.
C12_LatestBroadcastUnlessUpdated ==
    /\ (entry = "hub" => C12_ContextIsLatestBroadcast)
    /\ [][(entry = "hub" /\ C12_ContextIsLatestBroadcast
            /\ hub_last'[1].op # "update_shared_context")
              => C12_ContextIsLatestBroadcast']_vars
    /\ [][(entry = "hub" /\ hub_last'[1].op = "update_shared_context")
              => LET a == hub_last'[1].agent[1]
                     u == hub_last'[1].content[1]
                 IN /\ shared_context'[a] # None
                    /\ \A k \in DOMAIN u : shared_context'[a][1][k] = u[k]
                    /\ shared_context[a] # None =>
                         \A k \in DOMAIN shared_context[a][1] \ DOMAIN u :
                            shared_context'[a][1][k] = shared_context[a][1][k]
                    /\ \A b \in DOMAIN shared_context \ {a} :
                         shared_context'[b] = shared_context[b]]_vars

C12_Witness ==
    /\ LastHubCall("broadcast")
    /\ Len(message_history) = 2
    /\ BroadcastsOf("MarketAnalyst") = {1, 2}
    /\ message_history[1].content # message_history[2].content
    /\ shared_context["MarketAnalyst"] = Some(message_history[2].content)

\* C13: broadcast(A, X) immediately followed by get_shared_context(A)
\* returns X, for every agent name A and content X.
C13_BroadcastRoundTrip ==
    (LastHubCall("get_shared_context") /\ hub_last[1].content # None)
        => hub_last[1].result = hub_last[1].content[1]

\* a message or a context entry of an earlier cycle is in the hub
HoldsEarlierCycle ==
    \/ \E k \in 1..Len(message_history) :
          "earlier_cycle" \in DOMAIN message_history[k].content
    \/ \E a \in DOMAIN shared_context :
          shared_context[a] # None /\ "earlier_cycle" \in DOMAIN shared_context[a][1]

\* C14: after clear() the history read by get_message_history is empty and
\* get_shared_context gives an empty mapping for every agent, whatever was
\* there before, and the registry is as it was; a trading cycle clears
\* first, so once it has started the hub holds nothing of an earlier cycle.
C14_ClearEmptiesHub ==
    /\ [](LastHubCall("clear") =>
            /\ get_message_history(message_history, None, 10) = <<>>
            /\ \A a \in ContextKeys :
                 get_shared_context(shared_context, Some(a)) = EmptyMapping
            /\ get_shared_context(shared_context, None) = EmptyMapping)
    /\ [][LastHubCall("clear")' => agents' = agents]_vars
    /\ []((entry = "cycle" /\ cpc # "idle") => ~HoldsEarlierCycle)

C14_Witness ==
    /\ LastHubCall("clear")
    /\ hub_last[1].before = MaxMessages
    /\ "Auditor" \in agents

\* C15: between two clear() calls the history only grows at its end:
\* broadcast and query_agent append exactly one message, and every other
\* operation leaves the history as it is.
C15_HistoryAppendOnly ==
    [][ \/ /\ entry = "hub"
           /\ hub_last'[1].op \in {"broadcast", "query_agent"}
           /\ Len(message_history') = Len(message_history) + 1
           /\ SubSeq(message_history', 1, Len(message_history)) = message_history
        \/ /\ entry = "hub"
           /\ hub_last'[1].op = "clear"
        \/ /\ entry = "hub"
           /\ hub_last'[1].op \notin {"broadcast", "query_agent", "clear"}
           /\ message_history' = message_history
        \/ /\ entry # "hub"
           /\ \/ message_history' = message_history
              \/ cpc = "idle" /\ message_history' = <<>>
              \/ /\ Len(message_history') = Len(message_history) + 1
                 /\ SubSeq(message_history', 1, Len(message_history))
                       = message_history
      ]_vars

C15_Witness ==
    /\ LastHubCall("update_shared_context")
    /\ Len(message_history) = MaxMessages
    /\ message_history[MaxMessages].message_type = "query"

\* the messages of the history that involve the agent of the filter
Matching(agent_name) ==
    IF agent_name = None THEN message_history
    ELSE LET Involves(m) == m.from_agent = agent_name[1] \/ m.to_agent = agent_name
         IN SelectSeq(message_history, Involves)

\* C16: get_message_history returns exactly the last min(limit, n) of the n
\* messages that match the filter, in insertion order, and so never more
\* than limit messages.
C16_LastLimitMessages ==
    LastHubCall("get_message_history") =>
        LET matching == Matching(hub_last[1].agent)
            n == Len(matching)
            limit == hub_last[1].content[1]
            k == IF limit < n THEN limit ELSE n
        IN /\ hub_last[1].result = SubSeq(matching, n - k + 1, n)
           /\ Len(hub_last[1].result) <= limit

\* ---------------------------------------------------- parsers and checker
\* the function `fn` was called and returned
Returned(fn) == probe # None /\ probe[1].fn = fn /\ ~probe[1].raised

\* the call returned a dictionary with a confidence
GaveConfidence ==
    /\ probe # None /\ ~probe[1].raised
    /\ \/ probe[1].fn \in {"_extract_confidence", "_parse_decision",
                           "parse_autonomous_decision"}
       \/ /\ probe[1].fn = "parse_proposal_from_text"
          /\ probe[1].result # None
          /\ probe[1].result[1].action # "HOLD"

\* the confidence of the dictionary the call returned
GivenConfidence ==
    IF probe[1].fn = "parse_proposal_from_text"
    THEN probe[1].result[1].confidence
    ELSE probe[1].result.confidence

\* C17: every confidence a parser produces is between 0.0 and 1.0: a matched
\* value above 1 is divided by 100, and a missing or unparseable value gives
\* exactly 0.5.
C17_ConfidenceInUnitInterval ==
    GaveConfidence =>
        LET numeral == probe[1].text[1].conf IN
        /\ 0 <= GivenConfidence /\ GivenConfidence <= 100
        /\ (numeral = None \/ (numeral # None /\ ~numeral[1]))
              => GivenConfidence = 50

\* C18: _parse_evaluation and _parse_decision return a result for every
\* model text and every current price, a missing one included: no shape of
\* the text makes them raise.
C18_ParsersNeverRaise ==
    (probe # None /\ probe[1].fn \in {"_parse_evaluation", "_parse_decision"})
        => ~probe[1].raised

\* C19: check_trade_constraints returns allowed true exactly when its list
\* of violations is empty.
C19_AllowedIffNoViolations ==
    Returned("check_trade_constraints") =>
        (probe[1].result.allowed <=> probe[1].result.violations = {})

C19_Witness ==
    /\ Returned("check_trade_constraints")
    /\ probe[1].args[3] = "BUY"
    /\ probe[1].result.violations = {"Insufficient cash"}
    /\ ~probe[1].result.allowed

\* ------------------------------------------------ the orchestrator's stream
\* The grammar of the specification as an automaton over event types:
\* status, thinking*, (tool_call, tool_result)*, thinking*, proposal,
\* complete; error may end any proper prefix that has begun.
SpecGrammarStep(q, e) ==
    IF q \in {"status", "thinking", "result", "thinking2", "tool", "proposal"}
       /\ e = "error"
    THEN "error"
    ELSE IF q = "start" /\ e = "status" THEN "status"
    ELSE IF q \in {"status", "thinking"} /\ e = "thinking" THEN "thinking"
    ELSE IF q \in {"status", "thinking", "result"} /\ e = "tool_call" THEN "tool"
    ELSE IF q = "tool" /\ e = "tool_result" THEN "result"
    ELSE IF q \in {"result", "thinking2"} /\ e = "thinking" THEN "thinking2"
    ELSE IF q \in {"status", "thinking", "result", "thinking2"} /\ e = "proposal"
    THEN "proposal"
    ELSE IF q = "proposal" /\ e = "complete" THEN "complete"
    ELSE "reject"

\* The grammar the generator follows: status, (thinking | tool_call,
\* tool_result)*, status, thinking*, proposal, complete; error may end any
\* proper prefix that has begun.
StreamGrammarStep(q, e) ==
    IF q \in {"analyzing", "tool", "proposing", "proposal"} /\ e = "error"
    THEN "error"
    ELSE IF q = "start" /\ e = "status" THEN "analyzing"
    ELSE IF q = "analyzing" /\ e = "thinking" THEN "analyzing"
    ELSE IF q = "analyzing" /\ e = "tool_call" THEN "tool"
    ELSE IF q = "tool" /\ e = "tool_result" THEN "analyzing"
    ELSE IF q = "analyzing" /\ e = "status" THEN "proposing"
    ELSE IF q = "proposing" /\ e = "thinking" THEN "proposing"
    ELSE IF q = "proposing" /\ e = "proposal" THEN "proposal"
    ELSE IF q = "proposal" /\ e = "complete" THEN "complete"
    ELSE "reject"

RECURSIVE SpecGrammarState(_)
SpecGrammarState(evs) ==
    IF evs = <<>> THEN "start"
    ELSE SpecGrammarStep(SpecGrammarState(SubSeq(evs, 1, Len(evs) - 1)),
                         evs[Len(evs)])

RECURSIVE StreamGrammarState(_)
StreamGrammarState(evs) ==
    IF evs = <<>> THEN "start"
    ELSE StreamGrammarStep(StreamGrammarState(SubSeq(evs, 1, Len(evs) - 1)),
                           evs[Len(evs)])

CountOf(type) == Cardinality({i \in 1..Len(emitted) : emitted[i] = type})

\* every tool_call that has a successor is followed by tool_result
ToolCallsAnswered ==
    \A i \in 1..(Len(emitted) - 1) :
        emitted[i] = "tool_call" => emitted[i + 1] = "tool_result"

\* proposal at most once, and what follows it is complete
ProposalThenComplete ==
    /\ CountOf("proposal") <= 1
    /\ \A i \in 1..(Len(emitted) - 1) :
          emitted[i] = "proposal" => emitted[i + 1] = "complete"
    /\ \A i \in 2..Len(emitted) :
          emitted[i] = "complete" => emitted[i - 1] = "proposal"

\* the stream has ended: complete or error was yielded, or the generator raised
StreamEnded == opc \in {"done", "raised"}

\* C20 as stated: the events emitted match status, thinking*, (tool_call,
\* tool_result)*, thinking*, proposal, complete or a prefix of it ended by
\* error, with exactly one status event, the first.
C20_StreamMatchesSpecGrammar ==
    entry = "orchestrator" =>
        /\ SpecGrammarState(emitted) # "reject"
        /\ CountOf("status") <= 1
        /\ ToolCallsAnswered
        /\ ProposalThenComplete

\* C20, amended: the events emitted match status, (thinking | tool_call,
\* tool_result)*, status, thinking*, proposal, complete or a prefix of it
\* that error may end: the first event is a status event and a second one
\* precedes the proposal, every tool_call is immediately followed by its
\* tool_result, and proposal is emitted once, immediately before complete.
C20_StreamMatchesGrammar ==
    entry = "orchestrator" =>
        /\ StreamGrammarState(emitted) # "reject"
        /\ emitted # <<>> => emitted[1] = "status"
        /\ CountOf("status") <= 2
        /\ CountOf("proposal") = 1 => CountOf("status") = 2
        /\ ToolCallsAnswered
        /\ ProposalThenComplete
        /\ (opc = "done") =>
              StreamGrammarState(emitted) \in {"complete", "error"}

C20_Witness ==
    /\ opc = "done"
    /\ StreamGrammarState(emitted) = "complete"
    /\ CountOf("tool_call") = 1
    /\ CountOf("thinking") = 2
    /\ proposal # None /\ proposal[1].action = "BUY"

\* ------------------------------------------------- the streaming interface
\* the event stream of POST /agent/analyze so far
SseEvents == event_generator(emitted, opc = "raised")

\* the orchestrator met a fatal error: its except clause ran
FatalError == opc = "raised" \/ (opc = "done" /\ CountOf("error") > 0)

\* C21: in the streaming interface a fatal error produces exactly one error
\* event, which is the last event of the stream; no complete event precedes
\* it, and a stream that has ended ends with complete or with error.
C21_ErrorIsSingleAndTerminal ==
    entry = "orchestrator" =>
        LET n == Len(SseEvents)
            errors == {i \in 1..n : SseEvents[i] = "error"}
        IN /\ errors \subseteq {n}
           /\ FatalError => (errors = {n}
                             /\ \A i \in 1..n : SseEvents[i] # "complete")
           /\ StreamEnded => SseEvents[n] \in {"complete", "error"}

C21_Witness ==
    /\ entry = "orchestrator" /\ opc = "raised"
    /\ CountOf("tool_result") = 1
    /\ SseEvents[Len(SseEvents)] = "error"

\* ------------------------------------------------ the execution agent's parse
\* the existing_position argument of the call of _parse_decision recorded
CalledPosition == probe[1].args[1]

\* the portfolio manager reported a position in the symbol
PositionHeld == CalledPosition.quantity > 0

\* C22: _parse_decision gives HOLD if the text contains HOLD; otherwise, if
\* a position exists, SELL when the text contains SELL or EXIT and else
\* HOLD; otherwise BUY when the text contains BUY without DON'T BUY and else
\* HOLD. A position reported by the portfolio manager counts as existing.
C22_ActionResolution ==
    Returned("_parse_decision") =>
        LET text == probe[1].text[1] IN
        probe[1].result.action =
            IF text.hold THEN "HOLD"
            ELSE IF PositionHeld
            THEN IF text.sell THEN "SELL" ELSE "HOLD"
            ELSE IF text.buy /\ ~text.dontbuy THEN "BUY" ELSE "HOLD"

\* C23: a SELL decision carries the full quantity of the existing position,
\* a BUY the risk manager's recommended_quantity and a HOLD no quantity;
\* with a position of 15 shares and a text containing SELL and EXIT the
\* quantity is 15.
C23_DecisionQuantity ==
    Returned("_parse_decision") =>
        LET text   == probe[1].text[1]
            result == probe[1].result
        IN /\ result.action = "SELL" => result.quantity = Some(CalledPosition.quantity)
           /\ result.action = "BUY" => result.quantity = Some(20)
           /\ result.action = "HOLD" => result.quantity = None
           /\ (CalledPosition.quantity = 15 /\ text.sell /\ ~text.hold /\ ~text.buy)
                 => result.quantity = Some(15)

\* ------------------------------------------------------ the risk manager's parse
\* floor(position_size / current_price) for the call recorded, 0 when the
\* price is missing or zero
ExpectedQuantity ==
    LET text  == probe[1].text[1]
        price == probe[1].args[1]
        position_size ==
            IF text.position # None THEN text.position[2]
            ELSE Min((100000 * 5) \div 100, PAPER_MAX_POSITION_SIZE)
    IN IF price = None THEN 0
       ELSE IF price[1] = 0 THEN 0
       ELSE position_size \div price[1]

\* C24: the risk manager's recommended_quantity is a non-negative integer
\* equal to floor(position_size / current_price), and 0 when the price is
\* missing or zero; a position size of $2000 at $100 gives 20, the quantity
\* of the resulting BUY decision.
C24_RecommendedQuantity ==
    /\ (probe # None /\ probe[1].fn = "_parse_evaluation"
        /\ ~ParseEvaluationRaises(probe[1].text[1]))
          => /\ ~probe[1].raised
             /\ probe[1].result.recommended_quantity = ExpectedQuantity
             /\ probe[1].result.recommended_quantity >= 0
    /\ entry = "cycle" =>
          \A i \in 1..Len(decisions) :
              decisions[i].action = "BUY" => decisions[i].quantity = Some(20)

\* ------------------------------------------------------ agreement of the agents
\* C25: a decision returned by run_trading_cycle has action BUY only if the
\* risk evaluation of that symbol is APPROVED and the portfolio constraint
\* result of that symbol has allowed = true.
C25_BuyNeedsAgreement ==
    [][(/\ entry = "cycle"
        /\ Len(decisions') > Len(decisions)
        /\ decisions'[Len(decisions')].action = "BUY")
          => /\ risk_evaluation # None
             /\ risk_evaluation[1].approval_status = "APPROVED"
             /\ portfolio_constraints # None
             /\ portfolio_constraints[1].allowed]_vars

\* ------------------------------------------ orders and the paper account
OrderIds == 1..Len(orders)

\* no call is in progress
Quiescent == \A r \in Requests : AtRest(tasks[r])

\* what a fill of the order adds to the cash balance
CashEffect(order) ==
    IF order.side = "BUY" THEN 0 - order.quantity * QuotePrice
    ELSE order.quantity * QuotePrice

\* the sum of the cash effects of the first n orders that are FILLED
RECURSIVE FilledCash(_)
FilledCash(n) ==
    IF n = 0 THEN 0
    ELSE FilledCash(n - 1)
         + (IF orders[n].status = "FILLED" THEN CashEffect(orders[n]) ELSE 0)

\* C26: the effect of an order on cash and positions is applied at most
\* once, and a rejected order is never filled, also when approvals and
\* rejections of the same order overlap.
C26_OrderAppliedAtMostOnce ==
    entry = "store" =>
        \A o \in OrderIds :
            orders[o].origin = "propose_trade" =>
                /\ orders[o].cash_effects <= 1
                /\ orders[o].rejected =>
                      (orders[o].status = "REJECTED" /\ orders[o].cash_effects = 0)

\* C27: the cash balance and the position quantity of an account are never
\* negative, after any sequence of propose_trade, approve, reject and
\* execute_paper_trade.
C27_NothingNegative ==
    entry = "store" => (cash_balance >= 0 /\ position_quantity >= 0)

\* C28: when the only call of execute_paper_trade made so far raised, the
\* account's cash balance is as it was before the call and no order of the
\* call exists.
C28_FailedTradeLeavesAccount ==
    (/\ entry = "store"
     /\ ncalls = 1
     /\ tasks["first"].op = "execute"
     /\ tasks["first"].pc = "raised")
        => /\ cash_balance = StartingCash
           /\ \A o \in OrderIds : orders[o].origin = "propose_trade"

\* C30: after any interleaving of trade executions, with every order that
\* was filled paid for once, the cash balance is the starting cash minus the
\* cost of the filled BUY orders plus the proceeds of the filled SELL orders.
C30_NoLostCashUpdate ==
    (/\ entry = "store"
     /\ Quiescent
     /\ \A o \in OrderIds :
           orders[o].cash_effects = (IF orders[o].status = "FILLED" THEN 1 ELSE 0))
        => cash_balance = StartingCash + FilledCash(Len(orders))

\* ------------------------------------------------ limit on open positions
\* Values PAPER_MAX_POSITIONS can be configured to through the environment
\* (the default is the largest considered).
ConfiguredMaxPositions == 1..PAPER_MAX_POSITIONS

\* number of symbols the pilot account holds a position in
OpenPositions(acct) == Cardinality({s \in Symbols : acct[s] > 0})

\* C29: whatever PAPER_MAX_POSITIONS is configured to, no step of a pilot run
\* opens a position in an account that already holds that many positions,
\* also when several BUY decisions of one cycle were made against the
\* snapshot taken at its start.
C29_PilotWithinMaxPositions ==
    [][entry = "pilot" =>
          \A max \in ConfiguredMaxPositions :
              OpenPositions(account) >= max =>
                  OpenPositions(account') <= OpenPositions(account)]_vars

====
